---- MODULE Spec2Model ----
(***************************************************************************)
(* The lead-classification pipeline of leads_agent: classify_lead          *)
(* (agent.py) with its three stage runners, and the process_and_post       *)
(* wrapper (core/processor.py) that opens the enclosing lead span; the     *)
(* prompt builders and the configuration store of PromptManager            *)
(* (prompts/manager.py) with the endpoints of api.py that write it; the    *)
(* two agent_factory functions (agent.py, llm.py); the research run's     *)
(* use of the web-search tool; the entry paths from a Slack event          *)
(* (models.py, api.py) and from a message text (classify_message); the     *)
(* stage runs' retries; the global prompt manager (get_prompt_manager);    *)
(* and the posting of the result to Slack (post_to_slack).                 *)
(*                                                                         *)
(* A Python str is a sequence of one-character strings; None is the        *)
(* distinguished value None below.  A float confidence in [0,1] is kept in *)
(* hundredths.  What the language model returns, and whether a call        *)
(* raises, is an input chosen with \E from the sets below.                 *)
(***************************************************************************)
EXTENDS Integers, Sequences, FiniteSets, TLC

VARIABLES
    entry,            \* which public function the caller invoked
    lead,             \* the HubSpotLead being processed
    thread_ts,        \* process_and_post's thread_ts argument
    debug,            \* classify_lead's debug argument
    pc,               \* position of the run
    trace_id,         \* lead_id attribute of process_and_post's span
    lead_id,          \* lead_id attribute of classify_lead's span
    triage,           \* triage_run.output
    enriched,         \* what _research_lead returned
    final,            \* classify_lead's local `final`
    message_history,  \* classify_lead's local `message_history`
    usage,            \* classify_lead's local `usage`
    result,           \* what classify_lead returned
    calls,            \* run_sync invocations so far, in order
    research_output,  \* run.output of the research run, if it returned
    research_error,   \* the exception _research_lead caught, if any
    scored,           \* the scoring run's output, if it returned
    raised,           \* the call whose exception left classify_lead, if any
    score_lead_enriched,  \* the `enriched` argument _score_lead was called with
    id_leads,         \* identity check: the leads whose identity is computed
    id_out,           \* identity check: the identities computed for them
    prompt_config,    \* prompt building: the PromptConfig the manager holds
    prompts,          \* prompt building: the prompt built for each stage
    loaded_config,    \* what load_prompt_config() returned at start-up
    _config,          \* PromptManager._config
    _runtime_config,  \* PromptManager._runtime_config (empty set: None)
    oplog,            \* the store operations served so far, with outcomes
    before,           \* <<_config, _runtime_config>> before the last operation
    response,         \* status of the last operation's HTTP response
    reader_pc,        \* position of a pipeline thread inside PromptManager.config
    reader_saw,       \* what its test `_runtime_config is not None` gave
    reader_cfg,       \* what PromptManager.config returned to it
    in_effect,        \* every configuration that has been the effective one
    factory,          \* which agent_factory the process uses
    cache,            \* llm.agent_factory's lru_cache, least recent first
    constructions,    \* Agent objects constructed so far
    given,            \* per key, the agents agent_factory has returned
    requested,        \* requests agent_factory has served
    max_searches,     \* _research_lead's max_searches argument
    searches,         \* web-search tool invocations of the research run
    search_pc,        \* position of the research run
    arrival,          \* what reached the process: a Slack event or a message text
    attempts,         \* per stage, the retries its run has used so far
    stage_agents,     \* the stage agents one run has created, with the
                      \* configuration their instructions were built from
    _prompt_manager,  \* manager.py's global (empty set: None), by object number
    managers,         \* the PromptManager objects constructed, each by its
                      \* _runtime_config
    callers,          \* per thread, its position inside get_prompt_manager
                      \* and what the call returned
    handed_out,       \* the managers get_prompt_manager has returned
    installs,         \* update_config calls made on a returned manager
    manager_calls,    \* get_prompt_manager calls begun
    manager_resets,   \* reset_prompt_manager calls
    dry_run,          \* settings.dry_run
    posts,            \* the chat_postMessage calls made, with their arguments
    processed         \* the ProcessedLead process_and_post returned

pipelineVars == <<entry, lead, thread_ts, debug, pc, trace_id, lead_id, triage, enriched, final, message_history, usage, result, calls, research_output, research_error, scored, raised, score_lead_enriched, id_leads, id_out>>

promptVars == <<prompt_config, prompts>>

storeVars == <<loaded_config, _config, _runtime_config, oplog, before, response, reader_pc, reader_saw, reader_cfg, in_effect>>

agentVars == <<factory, cache, constructions, given, requested>>

searchVars == <<max_searches, searches, search_pc>>

entryVars == <<arrival>>

runVars == <<attempts>>

stageAgentVars == <<stage_agents>>

managerVars == <<_prompt_manager, managers, callers, handed_out, installs, manager_calls, manager_resets>>

postVars == <<dry_run, posts, processed>>

\* the process around the pipeline: its entry paths, the stage runs seen
\* from inside, the stage agents of a run, the global prompt manager, and
\* the posting to Slack
hostVars == <<entryVars, runVars, stageAgentVars, managerVars, postVars>>

vars == <<pipelineVars, promptVars, storeVars, agentVars, searchVars, hostVars>>

----------------------------------------------------------------------------
(* Python values *)

None == <<"<None>">>

Nothing == [none |-> TRUE]

\* Python truthiness of an Optional[str]
Truthy(s) == s # None /\ s # <<>>

\* `x or ""`
OrEmpty(s) == IF Truthy(s) THEN s ELSE <<>>

LowerChar(c) ==
    CASE c = "A" -> "a"
      [] c = "B" -> "b"
      [] c = "C" -> "c"
      [] c = "E" -> "e"
      [] c = "F" -> "f"
      [] c = "H" -> "h"
      [] c = "L" -> "l"
      [] c = "M" -> "m"
      [] c = "N" -> "n"
      [] c = "S" -> "s"
      [] OTHER   -> c

\* str.lower()
Lower(s) == [i \in 1..Len(s) |-> LowerChar(s[i])]

TextPrefixLen == 500

\* s[:n]
Prefix(s, n) == IF Len(s) <= n THEN s ELSE SubSeq(s, 1, n)

RECURSIVE JoinFrom(_, _, _)
JoinFrom(parts, sep, i) ==
    IF i > Len(parts) THEN <<>>
    ELSE IF i = Len(parts) THEN parts[i]
    ELSE parts[i] \o sep \o JoinFrom(parts, sep, i + 1)

\* sep.join(parts)
Join(parts, sep) == JoinFrom(parts, sep, 1)

RECURSIVE IndexFrom(_, _, _)
IndexFrom(s, c, i) ==
    IF i > Len(s) THEN 0
    ELSE IF s[i] = c THEN i
    ELSE IndexFrom(s, c, i + 1)

\* s.split("@", 1)[1], for s containing "@"
AfterFirstAt(s) == SubSeq(s, IndexFrom(s, "@", 1) + 1, Len(s))

CharCode(c) ==
    CASE c = "a" -> 1
      [] c = "A" -> 2
      [] c = "b" -> 3
      [] c = "B" -> 4
      [] c = "c" -> 5
      [] c = "f" -> 6
      [] c = "@" -> 7
      [] c = "|" -> 8
      [] OTHER   -> 9

HexDigits == <<"0", "1", "2", "3", "4", "5", "6", "7",
               "8", "9", "a", "b", "c", "d", "e", "f">>

RECURSIVE DigestOf(_, _, _)
DigestOf(s, lo, hi) ==
    IF lo > hi THEN 0
    ELSE IF lo = hi
    THEN (CharCode(s[lo]) * (1 + ((lo * lo + 7 * lo) % 251))) % 65521
    ELSE LET mid == (lo + hi) \div 2
         IN  (DigestOf(s, lo, mid) + DigestOf(s, mid + 1, hi)) % 65521

HexLen == 12

\* hashlib.sha1(base.encode("utf-8")).hexdigest()[:12].  The digest is a
\* stand-in: a deterministic, lossy function of the bytes that yields twelve
\* hexadecimal characters.  SHA-1's collision resistance is not modelled.
Sha1Hex12(base) ==
    LET h == (DigestOf(base, 1, Len(base)) + 40503 * Len(base)) % 65521
    IN  [k \in 1..HexLen |-> HexDigits[((h * k + (h \div 16) + k * k) % 16) + 1]]

----------------------------------------------------------------------------
(* Leads *)

HubSpotLead(fn, ln, em, co, msg, raw) ==
    [first_name |-> fn, last_name |-> ln, email |-> em, company |-> co,
     message |-> msg, raw_text |-> raw]

Long1 == [i \in 1..(TextPrefixLen + 1) |-> "a"]
Long2 == [i \in 1..(TextPrefixLen + 1) |-> IF i = TextPrefixLen + 1 THEN "b" ELSE "a"]

Emails == {None, <<>>, <<"a", "@", "b">>, <<"A", "@", "b">>}

Texts == {<<None, <<"b">>>>, <<None, Long1>>, <<None, Long2>>,
          <<Long1, <<"b">>>>, <<<<"b">>, <<"b">>>>}

Leads ==
    {HubSpotLead(fn, None, em, co, t[1], t[2]) :
        fn \in {None, <<"f">>}, em \in Emails, co \in {None, <<"c">>}, t \in Texts}

\* the leads the pipeline is run on
PipelineLeads ==
    {HubSpotLead(None, None, em, co, t[1], t[2]) :
        em \in {None, <<"A", "@", "b">>}, co \in {None, <<"c">>},
        t \in {<<None, <<"b">>>>, <<Long1, <<"b">>>>}}

ThreadTs == {None, <<"1", ".", "5">>}

----------------------------------------------------------------------------
(* Lead identity *)

\* (lead.message or lead.raw_text or "")[:500]
LeadText(l) ==
    Prefix(IF Truthy(l.message) THEN l.message ELSE OrEmpty(l.raw_text),
           TextPrefixLen)

ClassifyLeadIdNoLower(l) ==
    LET byEmail == IF Truthy(l.email) THEN l.email ELSE <<>>
    IN  IF byEmail # <<>> THEN byEmail
        ELSE Sha1Hex12(Join(<<OrEmpty(l.company), OrEmpty(l.first_name),
                              OrEmpty(l.last_name), LeadText(l)>>, <<"|">>))

\* classify_lead's lead_id
ClassifyLeadId(l) ==
    LET byEmail == IF Truthy(l.email) THEN Lower(l.email) ELSE <<>>
    IN  IF byEmail # <<>> THEN byEmail
        ELSE Sha1Hex12(Join(<<OrEmpty(l.company), OrEmpty(l.first_name),
                              OrEmpty(l.last_name), LeadText(l)>>, <<"|">>))

\* process_and_post's email_domain
EmailDomain(l) ==
    IF Truthy(l.email) /\ IndexFrom(l.email, "@", 1) # 0
    THEN Lower(AfterFirstAt(l.email))
    ELSE <<>>

\* process_and_post's trace_id, recorded as its span's lead_id
ProcessAndPostTraceId(l, ts) ==
    LET first == IF Truthy(ts) THEN ts
                 ELSE IF Truthy(l.email) THEN Lower(l.email) ELSE <<>>
    IN  IF first # <<>> THEN first
        ELSE Sha1Hex12(Join(<<OrEmpty(l.company), EmailDomain(l),
                              OrEmpty(l.first_name), OrEmpty(l.last_name),
                              LeadText(l)>>, <<"|">>))

----------------------------------------------------------------------------
(* Classifications *)

LeadLabel == {"spam", "solicitation", "promising"}

\* The fields agent.py reads and writes on a triage output.  lead_summary and
\* key_signals are read by agent.py, core/processor.py and core/classify.py;
\* the models.py under src/ declares the other seven.
LeadClassification(label, confidence, reason, company, lead_summary, key_signals) ==
    [first_name |-> None, last_name |-> None, email |-> None,
     company |-> company, label |-> label, confidence |-> confidence,
     reason |-> reason, lead_summary |-> lead_summary,
     key_signals |-> key_signals]

\* score, action and score_reason are the scoring stage's additions.
EnrichedLeadClassification(c, company_research, contact_research, research_summary, score, action, score_reason) ==
    [first_name |-> c.first_name, last_name |-> c.last_name,
     email |-> c.email, company |-> c.company, label |-> c.label,
     confidence |-> c.confidence, reason |-> c.reason,
     lead_summary |-> c.lead_summary, key_signals |-> c.key_signals,
     company_research |-> company_research,
     contact_research |-> contact_research,
     research_summary |-> research_summary,
     score |-> score, action |-> action, score_reason |-> score_reason]

\* an Optional[int], like an optional sub-model, is a set of at most one value
NoInt == {}

ReasonJunk == <<"j", "u", "n", "k">>
ReasonIntent == <<"i", "n", "t", "e", "n", "t">>
ReasonVendor == <<"v", "e", "n", "d", "o", "r">>

\* what the triage agent may return
TriageOutputs ==
    { LeadClassification("spam", 95, ReasonJunk, None, None, None),
      LeadClassification("solicitation", 60, ReasonVendor, <<"c">>, <<"s">>, <<<<"k">>>>),
      LeadClassification("promising", 90, ReasonIntent, <<"c">>, <<"s">>, <<<<"k">>>>),
      LeadClassification("promising", 55, ReasonIntent, None, None, None) }

Acme == [company_name |-> <<"A", "c", "m", "e">>,
         company_description |-> <<"S", "a", "a", "S">>]

Found == <<"f", "o", "u", "n", "d">>

\* what the research agent may return: findings, or no findings at all
ResearchOutputs ==
    { EnrichedLeadClassification(
          LeadClassification("promising", 80, ReasonIntent, <<"c">>, <<"s">>, <<<<"k">>>>),
          {Acme}, {}, Found, NoInt, None, None),
      EnrichedLeadClassification(
          LeadClassification("promising", 55, ReasonIntent, None, None, None),
          {}, {}, None, NoInt, None, None) }

Scored(label, confidence, score, action) ==
    EnrichedLeadClassification(
        LeadClassification(label, confidence, ReasonIntent, <<"c">>, <<"s">>, <<<<"k">>>>),
        {Acme}, {}, Found, score, action, <<"w", "h", "y">>)

\* what the scoring agent may return
ScoringOutputs ==
    { Scored("promising", 85, {4}, "follow_up"),
      Scored("promising", 99, {5}, "prioritize"),
      Scored("spam", 70, {1}, "ignore"),
      Scored("promising", 90, {2}, "prioritize") }

\* str(e) of the exceptions a model or tool call may raise
ErrorMessages == {<<>>, <<"t", "i", "m", "e", "o", "u", "t">>}

----------------------------------------------------------------------------
(* Stage helpers *)

Stages == <<"triage", "research", "scoring">>

\* stage runs one classify_lead run is followed through
MaxStageCalls == 4

\* Agent(..., retries=2)
Retries == 2

\* run.all_messages(): the messages of one stage run, never empty
Messages(stage) == <<stage>>

Tokens == <<"n">>

\* _usage_snapshot: usage_ok is whether result.usage() returned
UsageSnapshot(usage_ok) ==
    IF usage_ok
    THEN [request_tokens |-> Tokens, response_tokens |-> Tokens, total_tokens |-> Tokens]
    ELSE [request_tokens |-> None, response_tokens |-> None, total_tokens |-> None]

ResearchFailed ==
    <<"R", "e", "s", "e", "a", "r", "c", "h", " ",
      "f", "a", "i", "l", "e", "d", ":", " ">>

ResearchFallbackNoNote(classification, e) ==
    [first_name |-> classification.first_name,
     last_name |-> classification.last_name,
     email |-> classification.email,
     company |-> classification.company,
     label |-> classification.label,
     confidence |-> classification.confidence,
     reason |-> classification.reason,
     lead_summary |-> classification.lead_summary,
     key_signals |-> classification.key_signals,
     company_research |-> {}, contact_research |-> {},
     research_summary |-> None,
     score |-> NoInt, action |-> None, score_reason |-> None]

\* _research_lead's except branch: the degraded result
ResearchFallback(classification, e) ==
    [first_name |-> classification.first_name,
     last_name |-> classification.last_name,
     email |-> classification.email,
     company |-> classification.company,
     label |-> classification.label,
     confidence |-> classification.confidence,
     reason |-> classification.reason,
     lead_summary |-> classification.lead_summary,
     key_signals |-> classification.key_signals,
     company_research |-> {}, contact_research |-> {},
     research_summary |-> ResearchFailed \o e,
     score |-> NoInt, action |-> None, score_reason |-> None]

\* a research output that carries no findings
IsEmptyResearch(output) ==
    /\ output.company_research = {}
    /\ output.contact_research = {}
    /\ ~Truthy(output.research_summary)

ResearchOutputEmptyFails(classification, output) ==
    IF IsEmptyResearch(output)
    THEN ResearchFallback(classification, <<"e", "m", "p", "t", "y">>)
    ELSE output

\* _research_lead's try branch: run.output is returned as it is
ResearchOutput(classification, output) == output

AfterTriageSpamOnly(t) == IF t.label # "spam" THEN "research" ELSE "returned"

\* classify_lead's branch on the triage label
AfterTriage(t) == IF t.label = "promising" THEN "research" ELSE "returned"

AfterResearchSkipsDegraded(error) == IF error # Nothing THEN "returned" ELSE "scoring"

AfterResearchRerunsFailed(error) == IF error # Nothing THEN "research" ELSE "scoring"

\* classify_lead calls _score_lead whatever _research_lead returned
AfterResearch(error) == "scoring"

TriageOnErrorSwallows ==
    [pc |-> "returned",
     result |-> LeadClassification("spam", 0, <<>>, None, None, None)]

\* triage_agent.run_sync is called outside any try: its exception leaves classify_lead
TriageOnError == [pc |-> "raised", result |-> Nothing]

ScoreOnErrorReturnsResearch(t, e) == [pc |-> "returned", result |-> e]

\* scoring_agent.run_sync is called outside any try: its exception leaves classify_lead
ScoreOnError(t, e) == [pc |-> "raised", result |-> Nothing]

FinalAfterScoringKeepsResearch(t, e, output) == e

\* final = scored
FinalAfterScoring(t, e, output) == output

ReturnNewestFirst(f, mh, us, dbg) ==
    IF dbg
    THEN [classification |-> f,
          message_history |-> [i \in 1..Len(mh) |-> mh[Len(mh) + 1 - i]],
          usage |-> us]
    ELSE f

\* classify_lead's return: the wrapper when debug is set
Return(f, mh, us, dbg) ==
    IF dbg
    THEN [classification |-> f, message_history |-> mh, usage |-> us]
    ELSE f

----------------------------------------------------------------------------
(* The pipeline *)

\* the parts of the state a run of one component leaves idle
PromptIdle == prompt_config = <<>> /\ prompts = <<>>

StoreIdle ==
    /\ loaded_config = <<>>
    /\ _config = <<>>
    /\ _runtime_config = {}
    /\ oplog = <<>>
    /\ before = <<>>
    /\ response = ""
    /\ reader_pc = "idle"
    /\ reader_saw = FALSE
    /\ reader_cfg = {}
    /\ in_effect = {}

AgentsIdle ==
    /\ factory = ""
    /\ cache = <<>>
    /\ constructions = 0
    /\ given = <<>>
    /\ requested = 0

SearchIdle == max_searches = 0 /\ searches = 0 /\ search_pc = "idle"

EntryIdle == arrival = Nothing

RunIdle == attempts = [s \in {"triage", "research", "scoring"} |-> 0]

StageAgentsIdle == stage_agents = <<>>

ManagerIdle ==
    /\ _prompt_manager = {}
    /\ managers = <<>>
    /\ callers = <<>>
    /\ handed_out = {}
    /\ installs = 0
    /\ manager_calls = 0
    /\ manager_resets = 0

\* dry_run is True unless the deployment sets it otherwise
PostIdle == dry_run = TRUE /\ posts = <<>> /\ processed = Nothing

HostIdle == EntryIdle /\ RunIdle /\ StageAgentsIdle /\ ManagerIdle /\ PostIdle

PipelineIdle ==
    /\ entry = "classify_lead"
    /\ lead = Nothing
    /\ thread_ts = None
    /\ debug = FALSE
    /\ trace_id = None
    /\ lead_id = None
    /\ triage = Nothing
    /\ enriched = Nothing
    /\ final = Nothing
    /\ message_history = <<>>
    /\ usage = <<>>
    /\ result = Nothing
    /\ calls = <<>>
    /\ research_output = Nothing
    /\ research_error = Nothing
    /\ scored = Nothing
    /\ raised = ""
    /\ score_lead_enriched = Nothing
    /\ id_leads = <<>>
    /\ id_out = <<>>

Entries == {"process_and_post", "classify_lead"}

Init ==
    /\ entry \in Entries
    /\ lead \in PipelineLeads
    /\ thread_ts \in (IF entry = "process_and_post" THEN ThreadTs ELSE {None})
    \* process_lead calls classify_lead without debug
    /\ debug \in (IF entry = "process_and_post" THEN {FALSE} ELSE BOOLEAN)
    /\ pc = entry
    /\ trace_id = None
    /\ lead_id = None
    /\ triage = Nothing
    /\ enriched = Nothing
    /\ final = Nothing
    /\ message_history = <<>>
    /\ usage = <<>>
    /\ result = Nothing
    /\ calls = <<>>
    /\ research_output = Nothing
    /\ research_error = Nothing
    /\ scored = Nothing
    /\ raised = ""
    /\ score_lead_enriched = Nothing
    /\ id_leads = <<>>
    /\ id_out = <<>>
    /\ PromptIdle /\ StoreIdle /\ AgentsIdle /\ SearchIdle /\ HostIdle

\* process_and_post, up to its call of process_lead
ProcessAndPost ==
    /\ pc = "process_and_post"
    /\ trace_id' = ProcessAndPostTraceId(lead, thread_ts)
    /\ pc' = "classify_lead"
    /\ UNCHANGED <<entry, lead, thread_ts, debug, lead_id, triage, enriched,
                   final, message_history, usage, result, calls,
                   research_output, research_error, scored, raised,
                   score_lead_enriched, id_leads, id_out>>
    /\ UNCHANGED <<promptVars, storeVars, agentVars, searchVars, hostVars>>

\* classify_lead, up to the triage agent's run
ClassifyLead ==
    /\ pc = "classify_lead"
    /\ lead_id' = ClassifyLeadId(lead)
    /\ pc' = "triage"
    /\ UNCHANGED <<entry, lead, thread_ts, debug, trace_id, triage, enriched,
                   final, message_history, usage, result, calls,
                   research_output, research_error, scored, raised,
                   score_lead_enriched, id_leads, id_out>>
    /\ UNCHANGED <<promptVars, storeVars, agentVars, searchVars, hostVars>>

\* triage_agent.run_sync(prompt) and what classify_lead does with its outcome
TriageRun ==
    /\ pc = "triage"
    /\ Len(calls) < MaxStageCalls
    /\ calls' = Append(calls, "triage")
    /\ \/ /\ raised' = "triage.run_sync"
          /\ pc' = TriageOnError.pc
          /\ result' = TriageOnError.result
          /\ UNCHANGED <<triage, final, message_history, usage>>
       \/ \E output \in TriageOutputs, msgs_ok \in BOOLEAN, usage_ok \in BOOLEAN :
             /\ triage' = output
             /\ final' = output
             /\ usage' = ("triage" :> UsageSnapshot(usage_ok))
             \* an exception of all_messages() is swallowed
             /\ message_history' = IF msgs_ok THEN Messages("triage") ELSE <<>>
             /\ pc' = AfterTriage(output)
             /\ result' = IF pc' = "returned"
                          THEN Return(final', message_history', usage', debug)
                          ELSE Nothing
             /\ UNCHANGED raised
    /\ UNCHANGED <<entry, lead, thread_ts, debug, trace_id, lead_id, enriched,
                   research_output, research_error, scored,
                   score_lead_enriched, id_leads, id_out>>
    /\ UNCHANGED <<promptVars, storeVars, agentVars, searchVars, hostVars>>

\* _research_lead(..., return_debug=True) and what classify_lead does with
\* the triple it returns
ResearchLead ==
    /\ pc = "research"
    /\ Len(calls) < MaxStageCalls
    /\ calls' = Append(calls, "research")
    /\ \/ \E e \in ErrorMessages :
             \* research_agent.run_sync raises
             /\ research_output' = Nothing
             /\ research_error' = [at |-> "run_sync", msg |-> e]
             /\ enriched' = ResearchFallback(triage, e)
             /\ usage' = usage @@ ("research" :> [error |-> e])
             /\ UNCHANGED message_history
       \/ \E output \in ResearchOutputs, e \in ErrorMessages :
             \* the run returns and run.all_messages() raises inside the try
             /\ research_output' = output
             /\ research_error' = [at |-> "all_messages", msg |-> e]
             /\ enriched' = ResearchFallback(triage, e)
             /\ usage' = usage @@ ("research" :> [error |-> e])
             /\ UNCHANGED message_history
       \/ \E output \in ResearchOutputs, usage_ok \in BOOLEAN :
             /\ research_output' = output
             /\ research_error' = Nothing
             /\ enriched' = ResearchOutput(triage, output)
             /\ usage' = usage @@ ("research" :> UsageSnapshot(usage_ok))
             /\ message_history' = message_history \o Messages("research")
    /\ pc' = AfterResearch(research_error')
    /\ result' = IF pc' = "returned"
                 THEN Return(final, message_history', usage', debug)
                 ELSE Nothing
    /\ UNCHANGED <<entry, lead, thread_ts, debug, trace_id, lead_id, triage,
                   final, scored, raised, score_lead_enriched, id_leads, id_out>>
    /\ UNCHANGED <<promptVars, storeVars, agentVars, searchVars, hostVars>>

\* _score_lead(..., enriched=enriched, return_debug=True) and classify_lead's return
ScoreLead ==
    /\ pc = "scoring"
    /\ Len(calls) < MaxStageCalls
    /\ calls' = Append(calls, "scoring")
    /\ score_lead_enriched' = enriched
    /\ \/ /\ raised' = "scoring.run_sync"
          /\ pc' = ScoreOnError(triage, enriched).pc
          /\ result' = ScoreOnError(triage, enriched).result
          /\ UNCHANGED <<final, message_history, usage, scored>>
       \/ \E output \in ScoringOutputs :
             \* the run returns and run.all_messages() raises outside any try
             /\ raised' = "scoring.all_messages"
             /\ scored' = output
             /\ pc' = "raised"
             /\ result' = Nothing
             /\ UNCHANGED <<final, message_history, usage>>
       \/ \E output \in ScoringOutputs, usage_ok \in BOOLEAN :
             /\ scored' = output
             /\ final' = FinalAfterScoring(triage, enriched, output)
             /\ message_history' = message_history \o Messages("scoring")
             /\ usage' = usage @@ ("scoring" :> UsageSnapshot(usage_ok))
             /\ pc' = "returned"
             /\ result' = Return(final', message_history', usage', debug)
             /\ UNCHANGED raised
    /\ UNCHANGED <<entry, lead, thread_ts, debug, trace_id, lead_id, triage,
                   enriched, research_output, research_error, id_leads, id_out>>
    /\ UNCHANGED <<promptVars, storeVars, agentVars, searchVars, hostVars>>

Next ==
    \/ ProcessAndPost
    \/ ClassifyLead
    \/ TriageRun
    \/ ResearchLead
    \/ ScoreLead

Spec == Init /\ [][Next]_vars

----------------------------------------------------------------------------
(* Lead identity on pairs of leads *)

InitIdentity ==
    /\ id_leads \in Leads \X Leads
    /\ id_out = <<None, None>>
    /\ pc = "identity"
    /\ entry = "classify_lead"
    /\ lead = Nothing
    /\ thread_ts = None
    /\ debug = FALSE
    /\ trace_id = None
    /\ lead_id = None
    /\ triage = Nothing
    /\ enriched = Nothing
    /\ final = Nothing
    /\ message_history = <<>>
    /\ usage = <<>>
    /\ result = Nothing
    /\ calls = <<>>
    /\ research_output = Nothing
    /\ research_error = Nothing
    /\ scored = Nothing
    /\ raised = ""
    /\ score_lead_enriched = Nothing
    /\ PromptIdle /\ StoreIdle /\ AgentsIdle /\ SearchIdle /\ HostIdle

\* classify_lead's computation of lead_id, applied to the i-th lead
ComputeLeadId(i) ==
    /\ pc = "identity"
    /\ id_out[i] = None
    /\ id_out' = [id_out EXCEPT ![i] = ClassifyLeadId(id_leads[i])]
    /\ UNCHANGED <<entry, lead, thread_ts, debug, pc, trace_id, lead_id,
                   triage, enriched, final, message_history, usage, result,
                   calls, research_output, research_error, scored, raised,
                   score_lead_enriched, id_leads>>
    /\ UNCHANGED <<promptVars, storeVars, agentVars, searchVars, hostVars>>

NextIdentity == \E i \in 1..2 : ComputeLeadId(i)

SpecIdentity == InitIdentity /\ [][NextIdentity]_vars

----------------------------------------------------------------------------
(* Prompt building (prompts/manager.py) *)

\* Text is a sequence of chunks: a literal of the source is one chunk, text
\* that comes from the configuration is one chunk per character.
BASE_TRIAGE_PROMPT == <<"BASE_TRIAGE_PROMPT">>

BASE_SCORING_PROMPT == <<"BASE_SCORING_PROMPT">>

BASE_RESEARCH_PROMPT == <<"BASE_RESEARCH_PROMPT">>

NL == <<"\n">>

\* an Optional[list[str]] is a set of at most one list
NoList == {}

ListOf(l) == CHOOSE x \in l : TRUE

\* Python truthiness of an Optional[list[str]]
ListTruthy(l) == l # NoList /\ ListOf(l) # <<>>

ICPConfig(description, target_industries, target_company_sizes, target_roles, geographic_focus, disqualifying_signals) ==
    [description |-> description,
     target_industries |-> target_industries,
     target_company_sizes |-> target_company_sizes,
     target_roles |-> target_roles,
     geographic_focus |-> geographic_focus,
     disqualifying_signals |-> disqualifying_signals]

\* icp, an optional sub-model, is a set of at most one ICPConfig
PromptConfig(company_name, services_description, icp, qualifying_questions, custom_instructions, research_focus_areas) ==
    [company_name |-> company_name,
     services_description |-> services_description,
     icp |-> icp,
     qualifying_questions |-> qualifying_questions,
     custom_instructions |-> custom_instructions,
     research_focus_areas |-> research_focus_areas]

\* PromptConfig(): every field at its default
EmptyPromptConfig == PromptConfig(None, None, {}, NoList, None, NoList)

Blank == <<" ", " ">>

ICPConfigs ==
    { ICPConfig(d, ti, tcs, tr, gf, ds) :
        d \in {None, <<"d">>},
        ti \in {NoList, {<<>>}, {<< <<"S">>, <<"F">> >>}},
        tcs \in {NoList, {<< <<"M">> >>}},
        tr \in {NoList, {<< <<"C">>, <<"V">> >>}},
        gf \in {NoList, {<< <<"U">> >>}},
        ds \in {NoList, {<< <<"f">> >>}} }

PromptConfigs ==
    { PromptConfig(cn, sd, icp, qq, ci, rfa) :
        cn \in {None, Blank, <<"A", "c">>},
        sd \in {None, <<"A", "I">>},
        icp \in {{}} \cup {{i} : i \in ICPConfigs},
        qq \in {NoList, {<< <<"q">>, <<"r">> >>}},
        ci \in {None, Blank, <<"x", " ", "y">>},
        rfa \in {NoList, {<< <<"t">> >>}} }

\* [f(x) for x in xs]
RECURSIVE MapSeq(_, _, _)
MapSeq(xs, pre, post) ==
    IF xs = <<>> THEN <<>>
    ELSE << pre \o Head(xs) \o post >> \o MapSeq(Tail(xs), pre, post)

\* icp.model_dump(exclude_none=True) == {}
IcpDumpIsEmpty(icp) ==
    /\ icp.description = None
    /\ icp.target_industries = NoList
    /\ icp.target_company_sizes = NoList
    /\ icp.target_roles = NoList
    /\ icp.geographic_focus = NoList
    /\ icp.disqualifying_signals = NoList

\* one `if icp.<attribute>: icp_parts.append(f"<label> {', '.join(...)}")`
IcpListPart(label, l) ==
    IF ListTruthy(l) THEN << <<label>> \o Join(ListOf(l), <<", ">>) >> ELSE <<>>

IcpTextPart(label, s) ==
    IF Truthy(s) THEN << <<label>> \o s >> ELSE <<>>

\* the company-context part of the triage prompt
CompanyContext(cfg) ==
    IF Truthy(cfg.company_name) \/ Truthy(cfg.services_description)
    THEN LET context_parts ==
                 IcpTextPart("Company: ", cfg.company_name)
                 \o IcpTextPart("Services: ", cfg.services_description)
         IN  << <<"\n--- Internal Company Context ---\n">> \o Join(context_parts, NL) >>
    ELSE <<>>

TriageIcp(cfg) ==
    IF cfg.icp # {} /\ ~IcpDumpIsEmpty(ListOf(cfg.icp))
    THEN LET icp == ListOf(cfg.icp)
             icp_parts ==
                 IcpTextPart("**Target Profile:** ", icp.description)
                 \o IcpListPart("**Target Industries:** ", icp.target_industries)
                 \o IcpListPart("**Target Company Sizes:** ", icp.target_company_sizes)
                 \o IcpListPart("**Decision Maker Roles:** ", icp.target_roles)
                 \o IcpListPart("**Geographic Focus:** ", icp.geographic_focus)
                 \o IcpListPart("**Disqualifying Signals:** ", icp.disqualifying_signals)
         IN  IF icp_parts # <<>>
             THEN << <<"\n--- Ideal Client Profile ---\n">> \o Join(icp_parts, NL) >>
             ELSE <<>>
    ELSE <<>>

\* the icp_parts of the scoring and of the research prompt
ScoringIcpParts(icp) ==
    IcpTextPart("**Ideal Profile:** ", icp.description)
    \o IcpListPart("**Priority Industries:** ", icp.target_industries)
    \o IcpListPart("**Target Company Sizes:** ", icp.target_company_sizes)
    \o IcpListPart("**Decision Maker Roles:** ", icp.target_roles)
    \o IcpListPart("**Red Flags:** ", icp.disqualifying_signals)

ScoringIcp(cfg) ==
    IF cfg.icp # {}
    THEN LET icp_parts == ScoringIcpParts(ListOf(cfg.icp))
         IN  IF icp_parts # <<>>
             THEN << <<"\n--- Ideal Client Profile ---\n">> \o Join(icp_parts, NL) >>
             ELSE <<>>
    ELSE <<>>

\* a `--- header ---` part listing the items of a list as "- item" lines
BulletSection(header, intro, l) ==
    IF ListTruthy(l)
    THEN << <<header, intro>> \o Join(MapSeq(ListOf(l), <<"- ">>, <<>>), NL) >>
    ELSE <<>>

CustomInstructions(cfg) ==
    IF Truthy(cfg.custom_instructions)
    THEN << <<"\n--- Additional Instructions ---\n">> \o cfg.custom_instructions >>
    ELSE <<>>

\* PromptManager.build_triage_prompt
build_triage_prompt(cfg) ==
    Join(<<BASE_TRIAGE_PROMPT>>
         \o CompanyContext(cfg)
         \o TriageIcp(cfg)
         \o BulletSection("\n--- Qualifying Questions ---\n", "Consider these during triage:\n", cfg.qualifying_questions)
         \o CustomInstructions(cfg),
         NL)

\* build_scoring_prompt with the sections of the triage prompt
build_scoring_prompt_as_triage(cfg) ==
    Join(<<BASE_SCORING_PROMPT>>
         \o CompanyContext(cfg)
         \o ScoringIcp(cfg)
         \o BulletSection("\n--- Qualifying Questions ---\n", "Use these to justify score/action:\n", cfg.qualifying_questions)
         \o CustomInstructions(cfg),
         NL)

\* PromptManager.build_scoring_prompt
build_scoring_prompt(cfg) ==
    Join(<<BASE_SCORING_PROMPT>>
         \o ScoringIcp(cfg)
         \o BulletSection("\n--- Qualifying Questions ---\n", "Use these to justify score/action:\n", cfg.qualifying_questions),
         NL)

\* " OR ".join(f"\"{x}\"" for x in l)
QuotedOr(l) == Join(MapSeq(ListOf(l), <<"\"">>, <<"\"">>), <<" OR ">>)

ClauseLine(label, l) ==
    IF ListTruthy(l) THEN << <<label, "(">> \o QuotedOr(l) \o <<")">> >> ELSE <<>>

\* clause_pack_lines of build_research_prompt
ClausePackLines(cfg) ==
    << <<"General noise filters: -jobs -careers -hiring -pdf -login">> >>
    \o (IF cfg.icp # {}
        THEN LET icp == ListOf(cfg.icp)
             IN  ClauseLine("Industry clause: ", icp.target_industries)
                 \o ClauseLine("Role/title clause: ", icp.target_roles)
                 \o ClauseLine("Geo clause: ", icp.geographic_focus)
                 \o ClauseLine("Company size clause: ", icp.target_company_sizes)
                 \o (IF ListTruthy(icp.disqualifying_signals)
                     THEN << <<"Disqualifier exclusions (optional): ">>
                             \o Join(MapSeq(ListOf(icp.disqualifying_signals), <<"-\"">>, <<"\"">>), <<" ">>) >>
                     ELSE <<>>)
        ELSE <<>>)
    \o ClauseLine("Focus-area terms (optional): ", cfg.research_focus_areas)
    \o (IF ListTruthy(cfg.qualifying_questions)
        THEN << <<"Qualifying questions: convert 1-2 into query clauses">> >>
        ELSE <<>>)

ResearchIcp(cfg) ==
    IF cfg.icp # {}
    THEN LET icp_parts == ScoringIcpParts(ListOf(cfg.icp))
         IN  IF icp_parts # <<>>
             THEN << <<"\n--- Ideal Client Profile ---\n", "Use this context to assess fit:\n">>
                     \o Join(icp_parts, NL) >>
             ELSE <<>>
    ELSE <<>>

ClausePack(cfg) ==
    LET clause_pack_lines == ClausePackLines(cfg)
    IN  IF clause_pack_lines # <<>>
        THEN << <<"\n--- Query Operator Clause Pack (use in DuckDuckGo queries) ---\n",
                  "Use these to make searches specific.\n">>
                \o Join(MapSeq(clause_pack_lines, <<"- ">>, <<>>), NL) >>
        ELSE <<>>

\* PromptManager.build_research_prompt
build_research_prompt(cfg) ==
    Join(<<BASE_RESEARCH_PROMPT>>
         \o BulletSection("\n--- What to Research ---\n", "Focus on finding:\n", cfg.research_focus_areas)
         \o BulletSection("\n--- Questions to Answer ---\n", "Try to gather information that helps answer:\n", cfg.qualifying_questions)
         \o ResearchIcp(cfg)
         \o ClausePack(cfg),
         NL)

StageNames == {"triage", "research", "scoring"}

\* the manager holds one configuration; no prompt has been built
InitPrompt ==
    /\ pc = "prompts"
    /\ prompt_config \in PromptConfigs
    /\ prompts = [s \in StageNames |-> None]
    /\ PipelineIdle /\ StoreIdle /\ AgentsIdle /\ SearchIdle /\ HostIdle

\* _create_triage_agent's pm.build_triage_prompt()
BuildTriagePrompt ==
    /\ pc = "prompts"
    /\ prompts["triage"] = None
    /\ prompts' = [prompts EXCEPT !["triage"] = build_triage_prompt(prompt_config)]
    /\ UNCHANGED <<prompt_config, pipelineVars, storeVars, agentVars, searchVars, hostVars>>

\* _create_research_agent's pm.build_research_prompt()
BuildResearchPrompt ==
    /\ pc = "prompts"
    /\ prompts["research"] = None
    /\ prompts' = [prompts EXCEPT !["research"] = build_research_prompt(prompt_config)]
    /\ UNCHANGED <<prompt_config, pipelineVars, storeVars, agentVars, searchVars, hostVars>>

\* _create_scoring_agent's pm.build_scoring_prompt()
BuildScoringPrompt ==
    /\ pc = "prompts"
    /\ prompts["scoring"] = None
    /\ prompts' = [prompts EXCEPT !["scoring"] = build_scoring_prompt(prompt_config)]
    /\ UNCHANGED <<prompt_config, pipelineVars, storeVars, agentVars, searchVars, hostVars>>

NextPrompt ==
    \/ BuildTriagePrompt
    \/ BuildResearchPrompt
    \/ BuildScoringPrompt

SpecPrompt == InitPrompt /\ [][NextPrompt]_vars

----------------------------------------------------------------------------
(* The configuration store: PromptManager and the /config/prompts endpoints *)

\* JSON values of a request body and of model_dump(): tagged, so that a value
\* of a wrong type is a value like any other
Null == [t |-> "null"]

Str(s) == [t |-> "str", v |-> s]

Num(n) == [t |-> "int", v |-> n]

List(l) == [t |-> "list", v |-> l]

Dict(d) == [t |-> "dict", v |-> d]

DumpStr(s) == IF s = None THEN Null ELSE Str(s)

DumpList(l) == IF l = NoList THEN Null ELSE List(ListOf(l))

DumpIcp(icp) ==
    Dict([description |-> DumpStr(icp.description),
          target_industries |-> DumpList(icp.target_industries),
          target_company_sizes |-> DumpList(icp.target_company_sizes),
          target_roles |-> DumpList(icp.target_roles),
          geographic_focus |-> DumpList(icp.geographic_focus),
          disqualifying_signals |-> DumpList(icp.disqualifying_signals)])

\* PromptConfig.model_dump()
model_dump(cfg) ==
    [company_name |-> DumpStr(cfg.company_name),
     services_description |-> DumpStr(cfg.services_description),
     icp |-> IF cfg.icp = {} THEN Null ELSE DumpIcp(ListOf(cfg.icp)),
     qualifying_questions |-> DumpList(cfg.qualifying_questions),
     custom_instructions |-> DumpStr(cfg.custom_instructions),
     research_focus_areas |-> DumpList(cfg.research_focus_areas)]

\* patch_prompt_config's deep_merge
RECURSIVE deep_merge(_, _)
deep_merge(base, updates) ==
    [key \in DOMAIN base \cup DOMAIN updates |->
        IF key \notin DOMAIN updates THEN base[key]
        ELSE IF key \in DOMAIN base /\ base[key].t = "dict" /\ updates[key].t = "dict"
             THEN Dict(deep_merge(base[key].v, updates[key].v))
             ELSE updates[key]]

\* data.get(key): a field missing from the data takes its default, None
Field(data, key) == IF key \in DOMAIN data THEN data[key] ELSE Null

ValidStr(x) == x.t \in {"null", "str"}

ValidList(x) == x.t \in {"null", "list"}

ValidIcp(x) ==
    \/ x.t = "null"
    \/ /\ x.t = "dict"
       /\ ValidStr(Field(x.v, "description"))
       /\ \A k \in {"target_industries", "target_company_sizes", "target_roles",
                    "geographic_focus", "disqualifying_signals"} :
              ValidList(Field(x.v, k))

LoadStr(x) == IF x.t = "str" THEN x.v ELSE None

LoadList(x) == IF x.t = "list" THEN {x.v} ELSE NoList

LoadIcp(x) ==
    IF x.t = "dict"
    THEN {ICPConfig(LoadStr(Field(x.v, "description")),
                    LoadList(Field(x.v, "target_industries")),
                    LoadList(Field(x.v, "target_company_sizes")),
                    LoadList(Field(x.v, "target_roles")),
                    LoadList(Field(x.v, "geographic_focus")),
                    LoadList(Field(x.v, "disqualifying_signals")))}
    ELSE {}

\* the model the fields of the data give, whatever their types
LoadConfig(data) ==
    PromptConfig(LoadStr(Field(data, "company_name")),
                 LoadStr(Field(data, "services_description")),
                 LoadIcp(Field(data, "icp")),
                 LoadList(Field(data, "qualifying_questions")),
                 LoadStr(Field(data, "custom_instructions")),
                 LoadList(Field(data, "research_focus_areas")))

\* a validation that drops the fields of a wrong type
model_validate_lenient(data) == [ok |-> TRUE, config |-> {LoadConfig(data)}]

\* PromptConfig.model_validate(data): the model, or a ValidationError
model_validate(data) ==
    IF /\ ValidStr(Field(data, "company_name"))
       /\ ValidStr(Field(data, "services_description"))
       /\ ValidIcp(Field(data, "icp"))
       /\ ValidList(Field(data, "qualifying_questions"))
       /\ ValidStr(Field(data, "custom_instructions"))
       /\ ValidList(Field(data, "research_focus_areas"))
    THEN [ok |-> TRUE, config |-> {LoadConfig(data)}]
    ELSE [ok |-> FALSE, config |-> {}]

ConfigAcme ==
    PromptConfig(<<"A", "c">>, None,
                 {ICPConfig(<<"d">>, {<< <<"S">> >>}, NoList, NoList, NoList, NoList)},
                 NoList, None, NoList)

ConfigQuestions ==
    PromptConfig(None, <<"A", "I">>, {}, {<< <<"q">> >>}, None, NoList)

\* what load_prompt_config() may have found at start-up
LoadedConfigs == {EmptyPromptConfig, ConfigAcme}

\* bodies of PUT /config/prompts
UpdateBodies == {ConfigAcme, ConfigQuestions}

\* bodies of PATCH /config/prompts that validate on any configuration
ValidPatches ==
    { [company_name |-> Str(<<"B">>)],
      [icp |-> Dict([description |-> Str(<<"e">>)])],
      [icp |-> Null, custom_instructions |-> Str(<<"x">>)],
      [nickname |-> Str(<<"n">>)] }

\* bodies that fail validation on any configuration: a field of a wrong type,
\* alone, next to a valid field, and inside the ICP
InvalidPatches ==
    { [company_name |-> Num(7)],
      [services_description |-> Str(<<"S">>), qualifying_questions |-> Str(<<"q">>)],
      [company_name |-> Str(<<"B">>), icp |-> Dict([target_roles |-> Num(3)])] }

PatchBodies == ValidPatches \cup InvalidPatches

MaxStoreOps == 3

\* the configuration as it was before the last operation served
EffectiveBeforeLastOp ==
    IF oplog = <<>> THEN (IF _runtime_config # {} THEN ListOf(_runtime_config) ELSE _config)
    ELSE IF before[2] # {} THEN ListOf(before[2]) ELSE before[1]

\* PromptManager.config, read in one piece
Effective == IF _runtime_config # {} THEN ListOf(_runtime_config) ELSE _config

\* PromptManager.update_config
update_config(config) == {config}

\* a reset that leaves the runtime configuration in place
reset_config_keeps == _runtime_config

\* PromptManager.reset_config
reset_config == {}

\* get_prompt_manager() has created the manager from the loaded configuration
InitStore ==
    /\ pc = "store"
    /\ loaded_config \in LoadedConfigs
    /\ _config = loaded_config
    /\ _runtime_config = {}
    /\ oplog = <<>>
    /\ before = <<_config, _runtime_config>>
    /\ response = ""
    /\ reader_pc = "idle"
    /\ reader_saw = FALSE
    /\ reader_cfg = {}
    /\ in_effect = {loaded_config}
    /\ PipelineIdle /\ PromptIdle /\ AgentsIdle /\ SearchIdle /\ HostIdle

\* what every writing endpoint leaves behind, given the new runtime value
Served(op, body, ok, runtime) ==
    /\ _runtime_config' = runtime
    /\ oplog' = Append(oplog, [op |-> op, body |-> body, ok |-> ok, installed |-> IF ok THEN runtime ELSE {}])
    /\ before' = <<_config, _runtime_config>>
    /\ response' = IF ok THEN "200" ELSE "400"
    /\ in_effect' = in_effect \cup (IF runtime # {} THEN runtime ELSE {_config})
    /\ UNCHANGED <<loaded_config, _config, reader_pc, reader_saw, reader_cfg>>
    /\ UNCHANGED <<pipelineVars, promptVars, agentVars, searchVars, hostVars>>

\* PUT /config/prompts
UpdatePromptConfig ==
    /\ pc = "store"
    /\ Len(oplog) < MaxStoreOps
    /\ \E config \in UpdateBodies :
           Served("update", model_dump(config), TRUE, update_config(config))

\* PATCH /config/prompts
PatchPromptConfig ==
    /\ pc = "store"
    /\ Len(oplog) < MaxStoreOps
    /\ \E update \in PatchBodies :
           LET current == model_dump(Effective)
               merged == deep_merge(current, update)
               new_config == model_validate(merged)
           IN  IF new_config.ok
               THEN Served("patch", update, TRUE, update_config(ListOf(new_config.config)))
               ELSE Served("patch", update, FALSE, _runtime_config)

\* DELETE /config/prompts
ResetPromptConfig ==
    /\ pc = "store"
    /\ Len(oplog) < MaxStoreOps
    /\ Served("reset", Null, TRUE, reset_config)

\* a pipeline thread enters PromptManager.config and evaluates
\* `self._runtime_config is not None`
ConfigTest ==
    /\ pc = "store"
    /\ reader_pc = "idle"
    /\ reader_saw' = (_runtime_config # {})
    /\ reader_pc' = "tested"
    /\ reader_cfg' = {}
    /\ UNCHANGED <<loaded_config, _config, _runtime_config, oplog, before, response, in_effect>>
    /\ UNCHANGED <<pipelineVars, promptVars, agentVars, searchVars, hostVars>>

\* ... and returns self._runtime_config, read again, or self._config
ConfigReturn ==
    /\ pc = "store"
    /\ reader_pc = "tested"
    /\ reader_cfg' = IF reader_saw THEN _runtime_config ELSE {_config}
    /\ reader_pc' = "returned"
    /\ UNCHANGED <<loaded_config, _config, _runtime_config, oplog, before, response, reader_saw, in_effect>>
    /\ UNCHANGED <<pipelineVars, promptVars, agentVars, searchVars, hostVars>>

\* the thread goes on to its next prompt, or the next run starts
ConfigAgain ==
    /\ pc = "store"
    /\ reader_pc = "returned"
    /\ reader_pc' = "idle"
    /\ reader_saw' = FALSE
    /\ reader_cfg' = {}
    /\ UNCHANGED <<loaded_config, _config, _runtime_config, oplog, before, response, in_effect>>
    /\ UNCHANGED <<pipelineVars, promptVars, agentVars, searchVars, hostVars>>

NextStore ==
    \/ UpdatePromptConfig
    \/ PatchPromptConfig
    \/ ResetPromptConfig
    \/ ConfigTest
    \/ ConfigReturn
    \/ ConfigAgain

SpecStore == InitStore /\ [][NextStore]_vars

----------------------------------------------------------------------------
(* Agent construction: agent_factory of agent.py and of llm.py *)

\* the arguments that identify an agent
AgentKey(llm_model_name, instructions, tools) ==
    [llm_base_url |-> "http://localhost:11434/v1",
     llm_model_name |-> llm_model_name,
     llm_api_key |-> "ollama",
     instructions |-> instructions,
     tools |-> tools]

\* the keys a process may ask for, in the order in which it first asks;
\* extra_tools is left at its default (a list argument is not hashable)
KeySeq ==
    << AgentKey("m1", BASE_TRIAGE_PROMPT, {}),
       AgentKey("m1", BASE_RESEARCH_PROMPT, {}),
       AgentKey("m1", BASE_SCORING_PROMPT, {}),
       AgentKey("m2", BASE_TRIAGE_PROMPT, {}),
       AgentKey("m2", BASE_RESEARCH_PROMPT, {}),
       AgentKey("m2", BASE_SCORING_PROMPT, {}),
       AgentKey("m3", BASE_TRIAGE_PROMPT, {}),
       AgentKey("m3", BASE_RESEARCH_PROMPT, {}),
       AgentKey("m3", BASE_SCORING_PROMPT, {}) >>

Keys == {KeySeq[i] : i \in 1..Len(KeySeq)}

\* @lru_cache(maxsize=8)
CacheMaxSize == 8

MaxAgentRequests == 10

MaxDirectRequests == 4

Factories == {"agent.agent_factory", "llm.agent_factory"}

InitAgents ==
    /\ pc = "agents"
    /\ factory \in Factories
    /\ cache = <<>>
    /\ constructions = 0
    /\ given = [k \in Keys |-> {}]
    /\ requested = 0
    /\ PipelineIdle /\ PromptIdle /\ StoreIdle /\ SearchIdle /\ HostIdle

\* the keys asked for before
Known == {k \in Keys : given[k] # {}}

\* a key asked for before, or the next key of KeySeq
Askable == Known \cup (IF Cardinality(Known) < Len(KeySeq) THEN {KeySeq[Cardinality(Known) + 1]} ELSE {})

\* Agent(model=..., instructions=..., tools=...): a new object
NewAgent(key) == [id |-> constructions + 1, key |-> key]

\* agent.agent_factory: provider, model and Agent are constructed on every call
AgentFactory ==
    /\ pc = "agents"
    /\ factory = "agent.agent_factory"
    /\ requested < MaxDirectRequests
    /\ \E key \in Askable :
           /\ constructions' = constructions + 1
           /\ given' = [given EXCEPT ![key] = @ \cup {NewAgent(key)}]
    /\ requested' = requested + 1
    /\ UNCHANGED <<factory, cache>>
    /\ UNCHANGED <<pipelineVars, promptVars, storeVars, searchVars, hostVars>>

CachedAt(key) == {i \in 1..Len(cache) : cache[i].key = key}

\* the sequence without its i-th element
Without(seq, i) == SubSeq(seq, 1, i - 1) \o SubSeq(seq, i + 1, Len(seq))

\* lru_cache on a miss: the new entry is the most recent one, and the least
\* recent entry is dropped when the cache is full
CacheInsert(c, agent) ==
    (IF Len(c) >= CacheMaxSize THEN Tail(c) ELSE c) \o <<agent>>

\* llm.agent_factory behind functools.lru_cache
LlmAgentFactory ==
    /\ pc = "agents"
    /\ factory = "llm.agent_factory"
    /\ requested < MaxAgentRequests
    /\ \E key \in Askable :
           IF CachedAt(key) # {}
           THEN LET i == CHOOSE j \in CachedAt(key) : TRUE
                IN  /\ cache' = Without(cache, i) \o <<cache[i]>>
                    /\ given' = [given EXCEPT ![key] = @ \cup {cache[i]}]
                    /\ UNCHANGED constructions
           ELSE /\ cache' = CacheInsert(cache, NewAgent(key))
                /\ given' = [given EXCEPT ![key] = @ \cup {NewAgent(key)}]
                /\ constructions' = constructions + 1
    /\ requested' = requested + 1
    /\ UNCHANGED factory
    /\ UNCHANGED <<pipelineVars, promptVars, storeVars, searchVars, hostVars>>

NextAgents ==
    \/ AgentFactory
    \/ LlmAgentFactory

SpecAgents == InitAgents /\ [][NextAgents]_vars

----------------------------------------------------------------------------
(* The research run and its web-search tool (_research_lead) *)

\* max_searches values callers pass; 4 is the default
SearchBudgets == {0, 1, 2, 4}

\* tool invocations the model may decide on within one run
MaxToolCalls == 5

\* duckduckgo_search_tool() is built without any limit on its invocations
\* (an optional limit that is absent); max_searches only appears in the text
\* of the run's prompt, "Limit yourself to {max_searches} total searches."
ToolCallLimit(budget) == {}

\* may the tool be invoked once more?
ToolAccepts(count, budget) ==
    \A limit \in ToolCallLimit(budget) : count < limit

InitSearch ==
    /\ pc = "search"
    /\ entry = "classify_lead"
    /\ lead \in PipelineLeads
    /\ triage \in {t \in TriageOutputs : t.label = "promising"}
    /\ max_searches \in SearchBudgets
    /\ searches = 0
    /\ search_pc = "idle"
    /\ thread_ts = None
    /\ debug = FALSE
    /\ trace_id = None
    /\ lead_id = None
    /\ enriched = Nothing
    /\ final = Nothing
    /\ message_history = <<>>
    /\ usage = <<>>
    /\ result = Nothing
    /\ calls = <<>>
    /\ research_output = Nothing
    /\ research_error = Nothing
    /\ scored = Nothing
    /\ raised = ""
    /\ score_lead_enriched = Nothing
    /\ id_leads = <<>>
    /\ id_out = <<>>
    /\ PromptIdle /\ StoreIdle /\ AgentsIdle /\ HostIdle

\* _research_lead up to research_agent.run_sync(research_prompt)
ResearchRunStart ==
    /\ pc = "search"
    /\ search_pc = "idle"
    /\ search_pc' = "running"
    /\ calls' = Append(calls, "research")
    /\ UNCHANGED <<entry, lead, thread_ts, debug, pc, trace_id, lead_id, triage, enriched, final, message_history, usage, result, research_output, research_error, scored, raised, score_lead_enriched, id_leads, id_out>>
    /\ UNCHANGED <<max_searches, searches>>
    /\ UNCHANGED <<promptVars, storeVars, agentVars, hostVars>>

\* the model asks for a web search and the tool runs it
WebSearch ==
    /\ pc = "search"
    /\ search_pc = "running"
    /\ searches < MaxToolCalls
    /\ ToolAccepts(searches, max_searches)
    /\ searches' = searches + 1
    /\ UNCHANGED <<max_searches, search_pc>>
    /\ UNCHANGED <<pipelineVars, promptVars, storeVars, agentVars, hostVars>>

\* the run ends: with an output, or with an exception that _research_lead
\* turns into the fallback
ResearchRunEnd ==
    /\ pc = "search"
    /\ search_pc = "running"
    /\ \/ \E output \in ResearchOutputs :
             /\ research_output' = output
             /\ research_error' = Nothing
             /\ enriched' = ResearchOutput(triage, output)
             /\ search_pc' = "returned"
       \/ \E e \in ErrorMessages :
             /\ research_output' = Nothing
             /\ research_error' = [at |-> "run_sync", msg |-> e]
             /\ enriched' = ResearchFallback(triage, e)
             /\ search_pc' = "failed"
    /\ UNCHANGED <<entry, lead, thread_ts, debug, pc, trace_id, lead_id, triage, final, message_history, usage, result, calls, scored, raised, score_lead_enriched, id_leads, id_out>>
    /\ UNCHANGED <<max_searches, searches>>
    /\ UNCHANGED <<promptVars, storeVars, agentVars, hostVars>>

NextSearch ==
    \/ ResearchRunStart
    \/ WebSearch
    \/ ResearchRunEnd

SpecSearch == InitSearch /\ [][NextSearch]_vars

----------------------------------------------------------------------------
(* Entry paths: from a Slack event or from a message text to the pipeline *)

Whitespace == {" ", "\n", "\t"}

RECURSIVE FindFrom(_, _, _)
\* the first index >= i at which the literal occurs, ignoring case; 0 if none
FindFrom(text, literal, i) ==
    IF i + Len(literal) - 1 > Len(text) THEN 0
    ELSE IF Lower(SubSeq(text, i, i + Len(literal) - 1)) = Lower(literal) THEN i
    ELSE FindFrom(text, literal, i + 1)

RECURSIVE SkipSpace(_, _)
\* \s*, greedy, from index i: the index of the first character it leaves
SkipSpace(text, i) ==
    IF i <= Len(text) /\ text[i] \in Whitespace THEN SkipSpace(text, i + 1) ELSE i

RECURSIVE LStrip(_)
LStrip(s) == IF s # <<>> /\ Head(s) \in Whitespace THEN LStrip(Tail(s)) ELSE s

RECURSIVE RStrip(_)
RStrip(s) ==
    IF s # <<>> /\ s[Len(s)] \in Whitespace THEN RStrip(SubSeq(s, 1, Len(s) - 1)) ELSE s

\* str.strip()
Strip(s) == RStrip(LStrip(s))

\* the lookahead (?=\n\*|\n*$) at index i
FieldEnds(text, i) ==
    \/ i + 1 <= Len(text) /\ text[i] = "\n" /\ text[i + 1] = "*"
    \/ \A k \in i..Len(text) : text[k] = "\n"

RECURSIVE LazyEnd(_, _)
\* (.+?) started at index k: the index of the last character it takes
LazyEnd(text, k) == IF FieldEnds(text, k + 1) THEN k ELSE LazyEnd(text, k + 1)

RECURSIVE RunEnd(_, _, _)
\* a greedy run of characters outside `stop` from index i: one past its end
RunEnd(text, stop, i) ==
    IF i <= Len(text) /\ text[i] \notin stop THEN RunEnd(text, stop, i + 1) ELSE i

\* re.sub(r"<[^|]+\|([^>]+)>", r"\1", value); the mailto pattern applied
\* before it matches a subset of the same links and rewrites them alike
RECURSIVE CleanLinks(_)
CleanLinks(value) ==
    LET i == IndexFrom(value, "<", 1)
        p == RunEnd(value, {"|"}, i + 1)
        q == RunEnd(value, {">"}, p + 1)
    IN  IF i = 0 THEN value
        ELSE IF p > i + 1 /\ p <= Len(value) /\ q > p + 1 /\ q <= Len(value)
        THEN SubSeq(value, 1, i - 1) \o SubSeq(value, p + 1, q - 1)
                \o CleanLinks(SubSeq(value, q + 1, Len(value)))
        ELSE SubSeq(value, 1, i) \o CleanLinks(SubSeq(value, i + 1, Len(value)))

\* group 1 of r"<literal>\s*(.+?)(?=\n\*|\n*$)", or None without a match
LazyField(text, literal) ==
    LET m == FindFrom(text, literal, 1)
        a == m + Len(literal)
        j == SkipSpace(text, a)
    IN  IF m = 0 \/ a > Len(text) THEN None
        ELSE IF j > Len(text) THEN CleanLinks(Strip(<<text[Len(text)]>>))
        ELSE CleanLinks(Strip(SubSeq(text, j, LazyEnd(text, j))))

\* group 1 of r"<literal>\s*(.+)" under re.DOTALL, or None without a match
GreedyField(text, literal) ==
    LET m == FindFrom(text, literal, 1)
        a == m + Len(literal)
        j == SkipSpace(text, a)
    IN  IF m = 0 \/ a > Len(text) THEN None
        ELSE IF j > Len(text) THEN CleanLinks(Strip(<<text[Len(text)]>>))
        ELSE CleanLinks(Strip(SubSeq(text, j, Len(text))))

Mailto == <<"<", "m", "a", "i", "l", "t", "o", ":">>

\* group 1 of r"<literal>\s*(?:<mailto:[^|]+\|)?([^\s>]+)", or None
EmailField(text, literal) ==
    LET m == FindFrom(text, literal, 1)
        j == SkipSpace(text, m + Len(literal))
        u == j + Len(Mailto)
        p == RunEnd(text, {"|"}, u)
        linked == /\ FindFrom(text, Mailto, j) = j
                  /\ p > u /\ p <= Len(text)
                  /\ RunEnd(text, Whitespace \cup {">"}, p + 1) > p + 1
        g == IF linked THEN p + 1 ELSE j
        h == RunEnd(text, Whitespace \cup {">"}, g)
    IN  IF m = 0 \/ h = g THEN None
        ELSE CleanLinks(Strip(SubSeq(text, g, h - 1)))

FirstNameLiteral == <<"*", "F", "i", "r", "s", "t", " ", "N", "a", "m", "e", "*", ":">>
LastNameLiteral == <<"*", "L", "a", "s", "t", " ", "N", "a", "m", "e", "*", ":">>
EmailLiteral == <<"*", "E", "m", "a", "i", "l", "*", ":">>
CompanyLiteral == <<"*", "C", "o", "m", "p", "a", "n", "y", "*", ":">>
MessageLiteral == <<"*", "M", "e", "s", "s", "a", "g", "e", "*", ":">>

\* HubSpotLead._parse_hubspot_text
_parse_hubspot_text(text) ==
    HubSpotLead(LazyField(text, FirstNameLiteral), LazyField(text, LastNameLiteral),
                EmailField(text, EmailLiteral), LazyField(text, CompanyLiteral),
                GreedyField(text, MessageLiteral), text)

BotMessage == <<"b", "o", "t", "_", "m", "e", "s", "s", "a", "g", "e">>
Hubspot == <<"h", "u", "b", "s", "p", "o", "t">>

\* dict.get(key, ""), a missing key being None here
GetOrEmpty(v) == IF v = None THEN <<>> ELSE v

\* HubSpotLead.from_slack_event; Nothing is its None
from_slack_event(event) ==
    IF event.subtype # BotMessage THEN Nothing
    ELSE IF Lower(GetOrEmpty(event.username)) # Hubspot THEN Nothing
    ELSE IF event.attachments = <<>> THEN Nothing
    ELSE LET attachment == event.attachments[1]
             raw_text == IF Truthy(attachment.fallback) THEN attachment.fallback
                         ELSE OrEmpty(attachment.text)
         IN  IF raw_text = <<>> THEN Nothing ELSE _parse_hubspot_text(raw_text)

\* classify_message's lead
MessageLead(text) == HubSpotLead(None, None, None, None, text, text)

RawFull == <<"*", "F", "i", "r", "s", "t", " ", "N", "a", "m", "e", "*", ":", " ", "f", "\n", "*", "E", "m", "a", "i", "l", "*", ":", " ", "<", "m", "a", "i", "l", "t", "o", ":", "A", "@", "b", "|", "A", "@", "b", ">", "\n", "*", "C", "o", "m", "p", "a", "n", "y", "*", ":", " ", "c", "\n", "*", "M", "e", "s", "s", "a", "g", "e", "*", ":", " ", "b">>
RawBare == <<"b", " ", "c">>
RawBlankMessage == <<"*", "E", "m", "a", "i", "l", "*", ":", " ", "A", "@", "b", "\n", "*", "m", "e", "s", "s", "a", "g", "e", "*", ":", " ", "\n">>

Attachments ==
    { <<>>,
      <<[fallback |-> None, text |-> None]>>,
      <<[fallback |-> <<>>, text |-> RawBare]>>,
      <<[fallback |-> RawFull, text |-> None]>>,
      <<[fallback |-> RawBlankMessage, text |-> RawBare]>> }

SlackEvents ==
    {[subtype |-> st, username |-> un, attachments |-> at, ts |-> <<"1", ".", "5">>] :
        st \in {None, BotMessage},
        un \in {None, <<"H", "u", "b", "S", "p", "o", "t">>, <<"b", "o", "b">>},
        at \in Attachments}

MessageTexts == {<<>>, <<" ">>, <<"b">>, RawFull}

Arrivals ==
    {[kind |-> "slack_event", event |-> ev, text |-> None] : ev \in SlackEvents}
        \cup {[kind |-> "text", event |-> Nothing, text |-> t] : t \in MessageTexts}

InitEntry ==
    /\ arrival \in Arrivals
    /\ pc = "arrival"
    /\ PipelineIdle /\ PromptIdle /\ StoreIdle /\ AgentsIdle /\ SearchIdle
    /\ RunIdle /\ StageAgentsIdle /\ ManagerIdle /\ PostIdle

\* _handle_hubspot_lead: parse the event, skip what is not a lead, and
\* hand the lead to process_and_post as a thread reply
HandleHubspotLead ==
    /\ pc = "arrival"
    /\ arrival.kind = "slack_event"
    /\ LET parsed == from_slack_event(arrival.event)
       IN  IF parsed = Nothing
           THEN /\ pc' = "skipped"
                /\ UNCHANGED <<entry, lead, thread_ts>>
           ELSE /\ lead' = parsed
                /\ entry' = "process_and_post"
                /\ thread_ts' = arrival.event.ts
                /\ pc' = "process_and_post"
    /\ UNCHANGED <<debug, trace_id, lead_id, triage, enriched, final,
                   message_history, usage, result, calls, research_output,
                   research_error, scored, raised, score_lead_enriched,
                   id_leads, id_out>>
    /\ UNCHANGED <<promptVars, storeVars, agentVars, searchVars, hostVars>>

\* classify_message, up to its call of classify_lead
ClassifyMessage ==
    /\ pc = "arrival"
    /\ arrival.kind = "text"
    /\ lead' = MessageLead(arrival.text)
    /\ \E d \in BOOLEAN : debug' = d
    /\ pc' = "classify_lead"
    /\ UNCHANGED <<entry, thread_ts, trace_id, lead_id, triage, enriched, final,
                   message_history, usage, result, calls, research_output,
                   research_error, scored, raised, score_lead_enriched,
                   id_leads, id_out>>
    /\ UNCHANGED <<promptVars, storeVars, agentVars, searchVars, hostVars>>

NextEntry ==
    \/ HandleHubspotLead
    \/ ClassifyMessage
    \/ ProcessAndPost
    \/ ClassifyLead
    \/ TriageRun
    \/ ResearchLead
    \/ ScoreLead

SpecEntry == InitEntry /\ [][NextEntry]_vars

----------------------------------------------------------------------------
(* Stage runs with their retries, under fair scheduling *)

\* a stage run may ask the model again while its retry budget lasts
RetryAllowed(used) == used < Retries

\* inside run_sync: the model's output is rejected and the model is asked
\* again; once the budget is used up the rejection is the exception that
\* the stage action's raising branch carries
StageRetry ==
    /\ pc \in {"triage", "research", "scoring"}
    /\ RetryAllowed(attempts[pc])
    /\ attempts' = [attempts EXCEPT ![pc] = @ + 1]
    /\ UNCHANGED <<pipelineVars, promptVars, storeVars, agentVars, searchVars, entryVars, stageAgentVars, managerVars, postVars>>

NextLive ==
    \/ StageRetry
    \/ ProcessAndPost
    \/ ClassifyLead
    \/ TriageRun
    \/ ResearchLead
    \/ ScoreLead

\* termination does not depend on the lead: one lead is followed
LiveLeads == {HubSpotLead(None, None, <<"A", "@", "b">>, <<"c">>, None, <<"b">>)}

InitLive == Init /\ lead \in LiveLeads

\* classify_lead runs in one thread and every model or tool call returns
\* or raises: a step that can be taken is eventually taken
SpecLive == InitLive /\ [][NextLive]_vars /\ WF_vars(NextLive)

----------------------------------------------------------------------------
(* One run's stage agents, created while the configuration is written *)

\* what _create_<stage>_agent hands to agent_factory as instructions
StageInstructions(stage, cfg) ==
    CASE stage = "triage" -> build_triage_prompt(cfg)
      [] stage = "research" -> build_research_prompt(cfg)
      [] stage = "scoring" -> build_scoring_prompt(cfg)

\* _create_<stage>_agent: get_prompt_manager() and pm.build_<stage>_prompt(),
\* at the moment the run reaches the stage
CreateStageAgent(stage) ==
    /\ pc = "store"
    /\ stage_agents' = Append(stage_agents,
            [stage |-> stage, config |-> Effective,
             instructions |-> StageInstructions(stage, Effective)])
    /\ UNCHANGED <<pipelineVars, promptVars, storeVars, agentVars, searchVars, entryVars, runVars, managerVars, postVars>>

\* classify_lead: triage_agent = _create_triage_agent(settings, api_key)
CreateTriageAgent == stage_agents = <<>> /\ CreateStageAgent("triage")

\* _research_lead: research_agent = _create_research_agent(settings, api_key)
CreateResearchAgent == Len(stage_agents) = 1 /\ CreateStageAgent("research")

\* _score_lead: scoring_agent = _create_scoring_agent(settings, api_key)
CreateScoringAgent == Len(stage_agents) = 2 /\ CreateStageAgent("scoring")

\* classify_lead returns, after triage alone or after scoring; the
\* background task is over and the next lead's run may start
RunReturns ==
    /\ pc = "store"
    /\ Len(stage_agents) \in {1, 3}
    /\ stage_agents' = <<>>
    /\ UNCHANGED <<pipelineVars, promptVars, storeVars, agentVars, searchVars, entryVars, runVars, managerVars, postVars>>

\* the run is a background task in a worker thread; the endpoints that
\* write the configuration are served meanwhile
NextRunConfig ==
    \/ UpdatePromptConfig
    \/ PatchPromptConfig
    \/ ResetPromptConfig
    \/ CreateTriageAgent
    \/ CreateResearchAgent
    \/ CreateScoringAgent
    \/ RunReturns

SpecRunConfig == InitStore /\ [][NextRunConfig]_vars

----------------------------------------------------------------------------
(* The global prompt manager: get_prompt_manager called from several threads *)

\* the event loop serving the configuration endpoints and two worker
\* threads processing leads
Threads == {"loop", "worker1", "worker2"}

MaxManagerCalls == 4

MaxManagerResets == 1

NotCalling == [at |-> "idle", got |-> {}, installs_before |-> 0]

InitManager ==
    /\ pc = "manager"
    /\ _prompt_manager = {}
    /\ managers = <<>>
    /\ callers = [t \in Threads |-> NotCalling]
    /\ handed_out = {}
    /\ installs = 0
    /\ manager_calls = 0
    /\ manager_resets = 0
    /\ PipelineIdle /\ PromptIdle /\ StoreIdle /\ AgentsIdle /\ SearchIdle
    /\ EntryIdle /\ RunIdle /\ StageAgentsIdle /\ PostIdle

OthersUnchanged ==
    UNCHANGED <<pipelineVars, promptVars, storeVars, agentVars, searchVars, entryVars, runVars, stageAgentVars, postVars>>

\* get_prompt_manager: `if _prompt_manager is None`
GetTest(t) ==
    /\ pc = "manager"
    /\ callers[t].at = "idle"
    /\ manager_calls < MaxManagerCalls
    /\ manager_calls' = manager_calls + 1
    /\ callers' = [callers EXCEPT ![t] =
            [at |-> IF _prompt_manager = {} THEN "creating" ELSE "returning",
             got |-> {}, installs_before |-> installs]]
    /\ UNCHANGED <<_prompt_manager, managers, handed_out, installs, manager_resets>>
    /\ OthersUnchanged

\* get_prompt_manager: `config = load_prompt_config()` and
\* `_prompt_manager = PromptManager(config)`; the new manager has no override
GetCreate(t) ==
    /\ pc = "manager"
    /\ callers[t].at = "creating"
    /\ managers' = Append(managers, {})
    /\ _prompt_manager' = {Len(managers) + 1}
    /\ callers' = [callers EXCEPT ![t].at = "returning"]
    /\ UNCHANGED <<handed_out, installs, manager_calls, manager_resets>>
    /\ OthersUnchanged

\* get_prompt_manager: `return _prompt_manager`, the global read again
GetReturn(t) ==
    /\ pc = "manager"
    /\ callers[t].at = "returning"
    /\ callers' = [callers EXCEPT ![t].at = "returned", ![t].got = _prompt_manager]
    /\ handed_out' = handed_out \cup _prompt_manager
    /\ UNCHANGED <<_prompt_manager, managers, installs, manager_calls, manager_resets>>
    /\ OthersUnchanged

\* the caller is an endpoint that installs an override: manager.update_config
InstallOverride(t) ==
    /\ pc = "manager"
    /\ callers[t].at = "returned"
    /\ \E m \in callers[t].got :
          managers' = [managers EXCEPT ![m] = update_config(ConfigAcme)]
    /\ installs' = installs + 1
    /\ callers' = [callers EXCEPT ![t] = NotCalling]
    /\ UNCHANGED <<_prompt_manager, handed_out, manager_calls, manager_resets>>
    /\ OthersUnchanged

\* the caller is a stage of a run that builds its prompt and goes on
BuildAndGoOn(t) ==
    /\ pc = "manager"
    /\ callers[t].at = "returned"
    /\ callers' = [callers EXCEPT ![t] = NotCalling]
    /\ UNCHANGED <<_prompt_manager, managers, handed_out, installs, manager_calls, manager_resets>>
    /\ OthersUnchanged

\* reset_prompt_manager
ResetPromptManager ==
    /\ pc = "manager"
    /\ manager_resets < MaxManagerResets
    /\ _prompt_manager' = {}
    /\ manager_resets' = manager_resets + 1
    /\ UNCHANGED <<managers, callers, handed_out, installs, manager_calls>>
    /\ OthersUnchanged

NextManager ==
    \/ \E t \in Threads : GetTest(t)
    \/ \E t \in Threads : GetCreate(t)
    \/ \E t \in Threads : GetReturn(t)
    \/ \E t \in Threads : InstallOverride(t)
    \/ \E t \in Threads : BuildAndGoOn(t)
    \/ ResetPromptManager

SpecManager == InitManager /\ [][NextManager]_vars

----------------------------------------------------------------------------
(* process_and_post to its end: formatting, posting to Slack, returning *)

ChannelId == <<"C", "1">>

\* format_slack_message's text, kept as what it is a rendering of
SlackMessage(l, classification, include_lead_info) ==
    [rendering_of |-> classification,
     lead_info |-> IF include_lead_info THEN l ELSE Nothing]

\* process_lead's return value
ProcessedLead(l, classification) ==
    [lead |-> l, classification |-> classification,
     slack_message |-> SlackMessage(l, classification, FALSE)]

\* post_to_slack: the message it sends
PostText(p, include_lead_info) ==
    IF include_lead_info
    THEN SlackMessage(p.lead, p.classification, include_lead_info)
    ELSE p.slack_message

\* post_to_slack: the keyword arguments of chat_postMessage
PostKwargs(channel_id, message, ts) ==
    IF Truthy(ts)
    THEN [channel |-> channel_id, text |-> message, thread_ts |-> ts]
    ELSE [channel |-> channel_id, text |-> message]

PostsAlways(dry) == TRUE

\* post_to_slack returns before touching Slack when settings.dry_run is set
Posts(dry) == ~dry

PostThreadTs == ThreadTs \cup {<<>>}

InitPost ==
    /\ entry = "process_and_post"
    /\ lead \in PipelineLeads
    /\ thread_ts \in PostThreadTs
    /\ debug = FALSE
    /\ pc = entry
    /\ trace_id = None
    /\ lead_id = None
    /\ triage = Nothing
    /\ enriched = Nothing
    /\ final = Nothing
    /\ message_history = <<>>
    /\ usage = <<>>
    /\ result = Nothing
    /\ calls = <<>>
    /\ research_output = Nothing
    /\ research_error = Nothing
    /\ scored = Nothing
    /\ raised = ""
    /\ score_lead_enriched = Nothing
    /\ id_leads = <<>>
    /\ id_out = <<>>
    /\ dry_run \in BOOLEAN
    /\ posts = <<>>
    /\ processed = Nothing
    /\ PromptIdle /\ StoreIdle /\ AgentsIdle /\ SearchIdle
    /\ EntryIdle /\ RunIdle /\ StageAgentsIdle /\ ManagerIdle

\* process_and_post after classify_lead has returned: process_lead builds
\* the ProcessedLead, post_to_slack posts it or not, and it is returned
PostToSlack ==
    /\ pc = "returned"
    /\ entry = "process_and_post"
    /\ \E include_lead_info \in BOOLEAN :
          LET p == ProcessedLead(lead, result)
              kwargs == PostKwargs(ChannelId, PostText(p, include_lead_info), thread_ts)
          IN  IF ~Posts(dry_run)
              THEN /\ processed' = p
                   /\ pc' = "posted"
                   /\ UNCHANGED <<posts, raised>>
              ELSE \/ /\ posts' = Append(posts, [kwargs |-> kwargs, ok |-> TRUE])
                      /\ processed' = p
                      /\ pc' = "posted"
                      /\ UNCHANGED raised
                   \/ \* chat_postMessage raises: process_and_post raises
                      /\ posts' = Append(posts, [kwargs |-> kwargs, ok |-> FALSE])
                      /\ raised' = "chat_postMessage"
                      /\ pc' = "raised"
                      /\ UNCHANGED processed
    /\ UNCHANGED <<entry, lead, thread_ts, debug, trace_id, lead_id, triage,
                   enriched, final, message_history, usage, result, calls,
                   research_output, research_error, scored,
                   score_lead_enriched, id_leads, id_out, dry_run>>
    /\ UNCHANGED <<promptVars, storeVars, agentVars, searchVars, entryVars, runVars, stageAgentVars, managerVars>>

NextPost ==
    \/ ProcessAndPost
    \/ ClassifyLead
    \/ TriageRun
    \/ ResearchLead
    \/ ScoreLead
    \/ PostToSlack

SpecPost == InitPost /\ [][NextPost]_vars

----------------------------------------------------------------------------
(* Properties *)

\* the classification classify_lead returned, out of its debug wrapper
FinalOf == IF debug THEN result.classification ELSE result

TriageFields ==
    {"first_name", "last_name", "email", "company", "label", "confidence",
     "reason", "lead_summary", "key_signals"}

CopiesTriage(e, t) == \A f \in TriageFields : e[f] = t[f]

StartsWith(s, prefix) ==
    /\ s # None
    /\ Len(s) >= Len(prefix)
    /\ SubSeq(s, 1, Len(prefix)) = prefix

\* a degraded EnrichedClassification of triage output t
IsDegraded(e, t) ==
    /\ CopiesTriage(e, t)
    /\ StartsWith(e.research_summary, ResearchFailed)

Count(seq, x) == Cardinality({i \in 1..Len(seq) : seq[i] = x})

ResearchRunRaised == research_error # Nothing /\ research_error.at = "run_sync"

\* C1: when the triage decision is not `promising`, neither the research nor
\* the scoring agent is invoked and classify_lead returns the triage
\* Classification unchanged.
C1_NonPromisingSkipsStages ==
    (triage # Nothing /\ triage.label # "promising") =>
        /\ calls = <<"triage">>
        /\ pc = "returned"
        /\ FinalOf = triage

C1_Witness ==
    /\ pc = "returned"
    /\ triage # Nothing
    /\ triage.label = "solicitation"
    /\ result = triage
    /\ calls = <<"triage">>

\* C2 as stated: when triage is promising and the research run raises, the
\* final result's decision, confidence, reason and signals are the triage
\* stage's and its research_summary is a non-empty failure note.
C2_FinalKeepsTriageValues ==
    (pc = "returned" /\ ResearchRunRaised) =>
        /\ FinalOf.label = triage.label
        /\ FinalOf.confidence = triage.confidence
        /\ FinalOf.reason = triage.reason
        /\ FinalOf.key_signals = triage.key_signals
        /\ StartsWith(FinalOf.research_summary, ResearchFailed)

\* C2 amended: when triage is promising and the research run raises, the
\* final result classify_lead returns is the scoring agent's output as it is;
\* the triage stage's decision, confidence, reason and signals and the
\* non-empty failure note are those of the degraded research output that the
\* scoring stage was given.
C2_FinalIsScoringOutput ==
    (pc = "returned" /\ ResearchRunRaised) =>
        /\ FinalOf = scored
        /\ scored \in ScoringOutputs
        /\ score_lead_enriched.label = triage.label
        /\ score_lead_enriched.confidence = triage.confidence
        /\ score_lead_enriched.reason = triage.reason
        /\ score_lead_enriched.key_signals = triage.key_signals
        /\ Truthy(score_lead_enriched.research_summary)

C2_Witness ==
    /\ pc = "returned"
    /\ ResearchRunRaised
    /\ triage.label = "promising"
    /\ FinalOf.label = "spam"
    /\ FinalOf.confidence # triage.confidence

\* C3: when triage is promising and the research run raises, the pipeline
\* goes on: the scoring agent is invoked exactly once, and it is given the
\* degraded EnrichedClassification, every triage field copied and the failure
\* reason in research_summary.
C3_ResearchFailureDegrades ==
    ResearchRunRaised =>
        /\ IsDegraded(enriched, triage)
        /\ enriched.research_summary = ResearchFailed \o research_error.msg
        /\ raised \in {"", "scoring.run_sync", "scoring.all_messages"}
        /\ \/ pc = "scoring" /\ Count(calls, "scoring") = 0
           \/ /\ pc \in {"returned", "raised"}
              /\ Count(calls, "scoring") = 1
              /\ score_lead_enriched = enriched

C3_Witness ==
    /\ ResearchRunRaised
    /\ research_error.msg # <<>>
    /\ triage.label = "promising"
    /\ triage.key_signals # None
    /\ calls = <<"triage", "research", "scoring">>
    /\ IsDegraded(score_lead_enriched, triage)

\* C4 as stated: a research run that returns an empty result is treated like
\* one that raised: scoring is given the degraded EnrichedClassification.
C4_EmptyResultDegrades ==
    (/\ research_output # Nothing
     /\ IsEmptyResearch(research_output)
     /\ score_lead_enriched # Nothing) =>
        IsDegraded(score_lead_enriched, triage)

\* C4 amended: a research run that returns, and whose messages are extracted
\* without an exception, hands its output to scoring unchanged, also when the
\* output is empty; the degraded EnrichedClassification is synthesized only
\* when an exception is raised inside _research_lead's try block.
C4_OutputPassedUnchanged ==
    /\ (research_output # Nothing /\ research_error = Nothing) =>
           /\ enriched = research_output
           /\ score_lead_enriched \in {Nothing, research_output}
    /\ (enriched # Nothing /\ research_error = Nothing) =>
           ~StartsWith(enriched.research_summary, ResearchFailed)

C4_Witness ==
    /\ research_output # Nothing
    /\ research_error = Nothing
    /\ IsEmptyResearch(research_output)
    /\ score_lead_enriched = research_output
    /\ "scoring" \in {calls[i] : i \in 1..Len(calls)}

\* C5: when the triage run raises, classify_lead raises: nothing is returned
\* and neither the research nor the scoring agent is invoked.
C5_TriageFailureIsFatal ==
    raised = "triage.run_sync" =>
        /\ pc = "raised"
        /\ result = Nothing
        /\ calls = <<"triage">>

C5_Witness ==
    /\ raised = "triage.run_sync"
    /\ pc = "raised"
    /\ triage = Nothing

\* C6: when the scoring run raises, classify_lead raises and returns nothing,
\* neither the triage Classification nor the research output, whether or not
\* research succeeded.
C6_ScoringFailureIsFatal ==
    raised = "scoring.run_sync" =>
        /\ pc = "raised"
        /\ result = Nothing

C6_Witness ==
    /\ raised = "scoring.run_sync"
    /\ pc = "raised"
    /\ research_error = Nothing
    /\ enriched \in ResearchOutputs

\* the two-valued decision the delivery side derives from a label
Decision(c) == IF c.label = "promising" THEN "promising" ELSE "ignore"

HasScore(c) == "score" \in DOMAIN c /\ c.score # NoInt

Rubric(c) ==
    /\ c.score \subseteq {1, 2} => c.action = "ignore" /\ Decision(c) = "ignore"
    /\ c.score \subseteq {3, 4} => c.action = "follow_up" /\ Decision(c) = "promising"
    /\ c.score = {5} => c.action = "prioritize" /\ Decision(c) = "promising"

C8_StagesInSequence ==
    /\ \E n \in 0..Len(Stages) : calls = SubSeq(Stages, 1, n)
    /\ Count(calls, "research") = 1 => triage # Nothing
    /\ Count(calls, "scoring") = 1 => enriched # Nothing
    /\ (pc = "returned" /\ triage.label = "promising") =>
           /\ calls = Stages
           /\ scored # Nothing

C8_Witness ==
    /\ pc = "returned"
    /\ calls = Stages
    /\ research_error # Nothing
    /\ scored # Nothing

HasEmail(l) == l.email # None /\ l.email # <<>>

SameIgnoringCase(a, b) ==
    /\ Len(a) = Len(b)
    /\ \A i \in 1..Len(a) : LowerChar(a[i]) = LowerChar(b[i])

TextOf(l) ==
    IF l.message # None /\ l.message # <<>> THEN l.message
    ELSE IF l.raw_text # None THEN l.raw_text ELSE <<>>

FirstChars(s, n) == [i \in 1..(IF Len(s) < n THEN Len(s) ELSE n) |-> s[i]]

\* equal on company, first_name, last_name and the first 500 characters of
\* (message or raw_text)
SameContent(a, b) ==
    /\ OrEmpty(a.company) = OrEmpty(b.company)
    /\ OrEmpty(a.first_name) = OrEmpty(b.first_name)
    /\ OrEmpty(a.last_name) = OrEmpty(b.last_name)
    /\ FirstChars(TextOf(a), TextPrefixLen) = FirstChars(TextOf(b), TextPrefixLen)

IsHex12(s) ==
    /\ Len(s) = HexLen
    /\ \A k \in 1..Len(s) : \E d \in 1..Len(HexDigits) : s[k] = HexDigits[d]

\* C9: the identity is a function of lead content: the lower-cased email when
\* there is one, so emails differing only in case give one identity;
\* otherwise twelve hex characters determined by company, first_name,
\* last_name and the first 500 characters of (message or raw_text).
C9_IdentityFromContent ==
    \A i \in DOMAIN id_out : \A j \in DOMAIN id_out :
        (id_out[i] # None /\ id_out[j] # None) =>
            LET a == id_leads[i]
                b == id_leads[j]
            IN  /\ HasEmail(a) =>
                       id_out[i] = [k \in 1..Len(a.email) |-> LowerChar(a.email[k])]
                /\ ~HasEmail(a) => IsHex12(id_out[i])
                /\ (HasEmail(a) /\ HasEmail(b) /\ SameIgnoringCase(a.email, b.email))
                       => id_out[i] = id_out[j]
                /\ (~HasEmail(a) /\ ~HasEmail(b) /\ SameContent(a, b))
                       => id_out[i] = id_out[j]

C9_Witness ==
    /\ DOMAIN id_out = {1, 2}
    /\ id_out[1] # None
    /\ id_out[1] = id_out[2]
    /\ id_leads[1].email = None
    /\ id_leads[2].email = <<>>
    /\ id_leads[1].message = None
    /\ id_leads[2].message = None
    /\ id_leads[1].raw_text = Long1
    /\ id_leads[2].raw_text = Long2

\* C10: the lead_id process_and_post records equals the lead_id
\* classify_lead computes for the same lead, for every thread_ts.
C10_OneIdentityPerLead ==
    (trace_id # None /\ lead_id # None) => trace_id = lead_id

----------------------------------------------------------------------------
(* Properties of prompt building *)

\* the base block of a stage
Base(stage) ==
    CASE stage = "triage" -> BASE_TRIAGE_PROMPT
      [] stage = "research" -> BASE_RESEARCH_PROMPT
      [] stage = "scoring" -> BASE_SCORING_PROMPT

CompanyHeader == "\n--- Internal Company Context ---\n"

IcpHeader == "\n--- Ideal Client Profile ---\n"

QuestionsHeader == "\n--- Qualifying Questions ---\n"

CustomHeader == "\n--- Additional Instructions ---\n"

SectionHeaders ==
    { CompanyHeader, IcpHeader, QuestionsHeader, CustomHeader,
      "\n--- What to Research ---\n", "\n--- Questions to Answer ---\n",
      "\n--- Query Operator Clause Pack (use in DuckDuckGo queries) ---\n" }

IsSectionHeader(chunk) == chunk \in SectionHeaders

\* the section headers of a prompt, in order
SectionsOf(p) == SelectSeq(p, IsSectionHeader)

Built(stage) == pc = "prompts" /\ prompts[stage] # None

EndsWith(s, suffix) ==
    /\ Len(s) >= Len(suffix)
    /\ SubSeq(s, Len(s) - Len(suffix) + 1, Len(s)) = suffix

\* C11: for every stage, when every optional field of the configuration is
\* unset, the built prompt is exactly the stage's base prompt.
C11_UnsetConfigGivesBase ==
    (pc = "prompts" /\ prompt_config = EmptyPromptConfig) =>
        \A s \in StageNames : Built(s) => prompts[s] = Base(s)

IsBlank(s) == s # None /\ s # <<>> /\ \A i \in 1..Len(s) : s[i] = " "

\* only string fields are given, and each given one is whitespace only
BlankConfig(cfg) ==
    /\ cfg.icp = {}
    /\ cfg.qualifying_questions = NoList
    /\ cfg.research_focus_areas = NoList
    /\ \A s \in {cfg.company_name, cfg.services_description, cfg.custom_instructions} :
           s = None \/ IsBlank(s)
    /\ \E s \in {cfg.company_name, cfg.services_description, cfg.custom_instructions} :
           IsBlank(s)

\* C12: a configuration whose string fields are whitespace-only is treated
\* like an unset one: every stage prompt built from it is exactly the base
\* block and has no section header.
C12_BlankConfigGivesBase ==
    (pc = "prompts" /\ BlankConfig(prompt_config)) =>
        \A s \in StageNames :
            Built(s) => prompts[s] = Base(s) /\ SectionsOf(prompts[s]) = <<>>

IcpAttributes ==
    {"description", "target_industries", "target_company_sizes",
     "target_roles", "geographic_focus", "disqualifying_signals"}

IcpPopulated(icp, a) ==
    IF a = "description" THEN Truthy(icp[a]) ELSE ListTruthy(icp[a])

\* the labels under which an ICP attribute is listed in an ICP block
BulletLabels(a) ==
    CASE a = "description" -> {"**Target Profile:** ", "**Ideal Profile:** "}
      [] a = "target_industries" -> {"**Target Industries:** ", "**Priority Industries:** "}
      [] a = "target_company_sizes" -> {"**Target Company Sizes:** "}
      [] a = "target_roles" -> {"**Decision Maker Roles:** "}
      [] a = "geographic_focus" -> {"**Geographic Focus:** "}
      [] a = "disqualifying_signals" -> {"**Disqualifying Signals:** ", "**Red Flags:** "}

Bullets(p, a) == Cardinality({i \in 1..Len(p) : p[i] \in BulletLabels(a)})

HasIcpBlock(p) == \E i \in 1..Len(p) : p[i] = IcpHeader

\* C13: in every stage prompt that has an ICP block, each populated ICP
\* attribute is exactly one bullet of the block and an unpopulated attribute
\* is none.
C13_PopulatedIcpAttributesAreBullets ==
    \A s \in StageNames :
        (Built(s) /\ prompt_config.icp # {} /\ HasIcpBlock(prompts[s])) =>
            \A a \in IcpAttributes :
                Bullets(prompts[s], a) =
                    IF IcpPopulated(ListOf(prompt_config.icp), a) THEN 1 ELSE 0

IcpAny(cfg, attributes) ==
    cfg.icp # {} /\ \E a \in attributes : IcpPopulated(ListOf(cfg.icp), a)

Section(present, header) == IF present THEN <<header>> ELSE <<>>

\* the sections the claim gives both prompts
SharedSections(cfg) ==
    Section(Truthy(cfg.company_name) \/ Truthy(cfg.services_description), CompanyHeader)
    \o Section(IcpAny(cfg, IcpAttributes), IcpHeader)
    \o Section(ListTruthy(cfg.qualifying_questions), QuestionsHeader)
    \o Section(Truthy(cfg.custom_instructions), CustomHeader)

\* the sections of the scoring prompt: no company context, no custom
\* instructions, and geographic focus alone makes no ICP block
ScoringSections(cfg) ==
    Section(IcpAny(cfg, IcpAttributes \ {"geographic_focus"}), IcpHeader)
    \o Section(ListTruthy(cfg.qualifying_questions), QuestionsHeader)

\* C14 (as claimed): the triage and the scoring prompt have the same
\* sections: company context, ICP, qualifying questions, custom
\* instructions, each present iff configured.
C14_SharedSectionStructure ==
    (Built("triage") /\ Built("scoring")) =>
        /\ SectionsOf(prompts["triage"]) = SharedSections(prompt_config)
        /\ SectionsOf(prompts["scoring"]) = SharedSections(prompt_config)

\* C14 (amended): the triage prompt is its base block followed by company
\* context, ICP, qualifying questions and custom instructions (verbatim, at
\* the end), each present iff its configuration is non-empty; the scoring
\* prompt is its base block followed only by the ICP block (present iff an
\* attribute other than geographic focus is non-empty) and the qualifying
\* questions.
C14_SectionStructurePerStage ==
    /\ Built("triage") =>
        /\ StartsWith(prompts["triage"], BASE_TRIAGE_PROMPT)
        /\ SectionsOf(prompts["triage"]) = SharedSections(prompt_config)
        /\ Truthy(prompt_config.custom_instructions) =>
               EndsWith(prompts["triage"],
                        <<CustomHeader>> \o prompt_config.custom_instructions)
    /\ Built("scoring") =>
        /\ StartsWith(prompts["scoring"], BASE_SCORING_PROMPT)
        /\ SectionsOf(prompts["scoring"]) = ScoringSections(prompt_config)

\* both prompts built from a configuration with every section configured
\* and geographic focus the only ICP attribute
C14_Witness ==
    /\ Built("triage") /\ Built("scoring")
    /\ SectionsOf(prompts["triage"]) = <<CompanyHeader, IcpHeader, QuestionsHeader, CustomHeader>>
    /\ SectionsOf(prompts["scoring"]) = <<QuestionsHeader>>

----------------------------------------------------------------------------
(* Properties of the configuration store *)

LastOp == oplog[Len(oplog)]

\* index of the last reset served, 0 if there was none
LastReset ==
    LET resets == {i \in 1..Len(oplog) : oplog[i].op = "reset"}
    IN  IF resets = {} THEN 0 ELSE CHOOSE i \in resets : \A j \in resets : j <= i

\* the successful updates and patches since the last reset
InstallsSinceReset ==
    {i \in 1..Len(oplog) :
        i > LastReset /\ oplog[i].op \in {"update", "patch"} /\ oplog[i].ok}

LastInstall == CHOOSE i \in InstallsSinceReset : \A j \in InstallsSinceReset : j <= i

\* C15: the effective configuration is the runtime override installed by the
\* most recent successful update or patch since the last reset, or the loaded
\* base configuration if there is none; right after a reset it is the base
\* configuration as loaded, which no operation modifies.
C15_EffectiveIsLastOverrideOrBase ==
    pc = "store" =>
        /\ _config = loaded_config
        /\ IF InstallsSinceReset = {}
           THEN Effective = loaded_config
           ELSE /\ {Effective} = oplog[LastInstall].installed
                /\ oplog[LastInstall].op = "update" =>
                       Effective = LoadConfig(oplog[LastInstall].body)
        /\ (oplog # <<>> /\ LastOp.op = "reset") => Effective = loaded_config

\* an update, then a reset, then a patch that installs an override
C15_Witness ==
    /\ pc = "store"
    /\ Len(oplog) = 3
    /\ oplog[1].op = "update"
    /\ oplog[2].op = "reset"
    /\ oplog[3].op = "patch" /\ oplog[3].ok
    /\ Effective # loaded_config

\* C16: a patch whose merge onto the effective configuration fails
\* validation is rejected as a whole: an error is returned and base, runtime
\* override and effective configuration are what they were before.
C16_InvalidPatchRejected ==
    (pc = "store" /\ oplog # <<>> /\ LastOp.op = "patch" /\ LastOp.body \in InvalidPatches) =>
        /\ response = "400"
        /\ <<_config, _runtime_config>> = before
        /\ _config = loaded_config

\* a patch with a valid company_name next to an invalid ICP field was served
\* while a runtime override was installed
C16_Witness ==
    /\ pc = "store"
    /\ oplog # <<>>
    /\ LastOp.op = "patch"
    /\ LastOp.body = [company_name |-> Str(<<"B">>), icp |-> Dict([target_roles |-> Num(3)])]
    /\ response = "400"
    /\ before[2] # {}
    /\ _runtime_config = before[2]

\* C17: every configuration a pipeline thread obtains while a writer
\* updates, patches or resets is one that was in effect as a whole: the
\* loaded base or a fully merged and validated runtime configuration.
C17_ReaderSeesWholeConfig ==
    (pc = "store" /\ reader_pc = "returned") =>
        /\ reader_cfg # {}
        /\ reader_cfg \subseteq in_effect

----------------------------------------------------------------------------
(* Properties of agent construction *)

\* C18: two requests for an agent with an identical key obtain the same
\* agent instance, and model and client are constructed once per distinct key.
C18_OneAgentPerKey ==
    pc = "agents" =>
        /\ \A k \in Keys : Cardinality(given[k]) <= 1
        /\ constructions = Cardinality(Known)

\* C19: once llm.agent_factory's cache holds an agent under a key, every
\* later lookup of that key returns that agent, however many other keys are
\* inserted in between: no entry is evicted or replaced.
C19_CacheIsAppendOnly ==
    (pc = "agents" /\ factory = "llm.agent_factory") =>
        /\ \A k \in Keys : Cardinality(given[k]) <= 1
        /\ \A k \in Known : CachedAt(k) # {}

----------------------------------------------------------------------------
(* Properties of the research run *)

\* C20: during the research stage of any run, the number of web-search tool
\* invocations never exceeds the max_searches passed to classify_lead.
C20_SearchesWithinBudget ==
    pc = "search" => searches <= max_searches

----------------------------------------------------------------------------
(* Properties of the execution trace *)

\* a stage run that returned its output, as opposed to one that raised
ResearchRunReturned == research_output # Nothing

ScoringRunReturned == scored # Nothing

\* C21: the execution trace never affects the classification: a failure
\* while extracting the trace messages or the token usage of a stage run
\* neither changes the classification nor turns a stage whose run returned
\* into a failed or a degraded one.
C21_TraceNeverAffectsResult ==
    /\ (ResearchRunReturned /\ enriched # Nothing) =>
            /\ research_error = Nothing
            /\ enriched = research_output
    /\ ScoringRunReturned => (pc = "returned" /\ FinalOf = scored)

----------------------------------------------------------------------------
(* Properties of the classification's label *)

Decisions == {"ignore", "promising"}

\* the classifications a run holds: what the stages returned and what
\* classify_lead keeps as its final result
HeldLabels ==
    {c.label : c \in {x \in {triage, enriched, scored, final} : x # Nothing}}

\* C22: the decision of every classification the pipeline produces or
\* accepts is one of exactly two values, ignore or promising; no stage
\* holds a classification with a third value.
C22_DecisionIsIgnoreOrPromising == HeldLabels \subseteq Decisions

----------------------------------------------------------------------------
(* Properties of the entry paths *)

TriageWasRun == \E i \in DOMAIN calls : calls[i] = "triage"

\* C23: every lead on which the triage agent is run has a non-empty message
\* or a non-empty raw_text, whether it came from from_slack_event through
\* process_and_post or from classify_message.
C23_TriagedLeadHasText ==
    TriageWasRun => (Truthy(lead.message) \/ lead.raw_text # <<>>)

----------------------------------------------------------------------------
(* Termination *)

Terminated == pc \in {"returned", "raised"}

NoStageRerun == \A s \in {"triage", "research", "scoring"} : Count(calls, s) <= 1

WithinRetryBudget == \A s \in DOMAIN attempts : attempts[s] <= Retries

\* C24: every classify_lead run terminates, provided each model or tool
\* call returns or raises: a stage run uses at most its retry budget of 2,
\* no stage is run twice, and the run ends returning a result or raising.
C24_RunTerminates == [](NoStageRerun /\ WithinRetryBudget) /\ <>Terminated

C24_Witness ==
    /\ pc = "returned"
    /\ calls = Stages
    /\ attempts["scoring"] = Retries

----------------------------------------------------------------------------
(* Properties of the returned trace *)

TriagePromising == triage # Nothing /\ triage.label = "promising"

ResearchFellBack == research_error # Nothing

\* the messages a stage may contribute to the trace
TriageBlocks == {<<>>, Messages("triage")}

ResearchBlock ==
    IF TriagePromising /\ ~ResearchFellBack THEN Messages("research") ELSE <<>>

ScoringBlock == IF TriagePromising THEN Messages("scoring") ELSE <<>>

\* C25: with debug=True the returned trace lists the model messages in
\* stage order (triage, then research, then scoring), its usage map has a
\* triage entry in every run and research and scoring entries exactly when
\* triage was promising, and when research fell back the research entry
\* records the error and the trace holds no research messages.
C25_TraceInStageOrder ==
    (pc = "returned" /\ debug) =>
        /\ \E t \in TriageBlocks :
              result.message_history = t \o ResearchBlock \o ScoringBlock
        /\ DOMAIN result.usage =
              IF TriagePromising THEN {"triage", "research", "scoring"} ELSE {"triage"}
        /\ ResearchFellBack =>
              /\ result.usage["research"] = [error |-> research_error.msg]
              /\ Count(result.message_history, "research") = 0

C25_Witness ==
    /\ pc = "returned" /\ debug
    /\ ResearchFellBack
    /\ result.message_history = Messages("triage") \o Messages("scoring")
    /\ DOMAIN result.usage = {"triage", "research", "scoring"}

----------------------------------------------------------------------------
(* Properties of a run's instructions *)

\* C26: within a single classify_lead run, the triage, research and scoring
\* instructions are all built from the same effective configuration, even
\* when an update, patch or reset is applied while the run is in progress.
C26_OneConfigPerRun ==
    \A i, j \in DOMAIN stage_agents : stage_agents[i].config = stage_agents[j].config

----------------------------------------------------------------------------
(* Properties of reading the configuration *)

\* C27: reading the effective configuration always yields a PromptConfig,
\* never an absent value, also when reset clears the runtime override
\* between the reader's presence check and its return.
C27_ReadYieldsConfig == reader_pc = "returned" => reader_cfg # {}

----------------------------------------------------------------------------
(* Properties of successive patches *)

RECURSIVE Contains(_, _)
\* the dumped configuration carries every configuration field of the patch
\* with the patch's value, nested dictionaries field by field
Contains(dump, patch) ==
    \A key \in DOMAIN patch \cap DOMAIN dump :
        IF patch[key].t = "dict"
        THEN dump[key].t = "dict" /\ Contains(dump[key].v, patch[key].v)
        ELSE dump[key] = patch[key]

AcceptedPatch(i) == oplog[i].op = "patch" /\ oplog[i].ok

\* two accepted patches served one after the other on disjoint fields
DisjointPatchesAt(i) ==
    /\ AcceptedPatch(i) /\ AcceptedPatch(i + 1)
    /\ DOMAIN oplog[i].body \cap DOMAIN oplog[i + 1].body = {}

\* C28: patches are applied atomically with respect to one another: when
\* two patches touching disjoint fields are both accepted, the resulting
\* effective configuration contains the fields of both.
C28_DisjointPatchesBothApplied ==
    pc = "store" =>
        \A i \in 1..(Len(oplog) - 1) :
            DisjointPatchesAt(i) =>
                \A cfg \in oplog[i + 1].installed :
                    /\ Contains(model_dump(cfg), oplog[i].body)
                    /\ Contains(model_dump(cfg), oplog[i + 1].body)

C28_Witness ==
    /\ pc = "store"
    /\ Len(oplog) = 2
    /\ DisjointPatchesAt(1)
    /\ oplog[1].body = [company_name |-> Str(<<"B">>)]
    /\ oplog[2].body = [icp |-> Dict([description |-> Str(<<"e">>)])]
    /\ Effective.company_name = <<"B">>
    /\ Effective.icp # {}

----------------------------------------------------------------------------
(* Properties of the global prompt manager *)

\* a call that began after an override was installed has returned
SawInstall(t) == callers[t].at = "returned" /\ callers[t].installs_before > 0

\* C29: until reset_prompt_manager is called there is exactly one prompt
\* manager per process: every call of get_prompt_manager, first calls racing
\* from several threads included, returns the same instance, so an override
\* installed through one caller's manager is visible to every later caller.
C29_OneManagerPerProcess ==
    (pc = "manager" /\ manager_resets = 0) =>
        /\ Len(managers) <= 1
        /\ Cardinality(handed_out) <= 1
        /\ \A t \in Threads :
              SawInstall(t) => \A m \in callers[t].got : managers[m] # {}

----------------------------------------------------------------------------
(* Properties of posting *)

\* process_and_post returned its ProcessedLead
Posted == pc = "posted"

IsThreadReply(call) == "thread_ts" \in DOMAIN call.kwargs

\* C30: with settings.dry_run set, process_and_post never calls
\* chat_postMessage, while the lead is still classified and the
\* ProcessedLead is still returned; without it exactly one message is
\* posted per successfully processed lead, as a thread reply iff a
\* thread_ts is given.
C30_DryRunNeverPosts ==
    /\ dry_run => posts = <<>>
    /\ Posted =>
          /\ TriageWasRun
          /\ processed = ProcessedLead(lead, result)
          /\ ~dry_run =>
                /\ Len(posts) = 1
                /\ posts[1].ok
                /\ IsThreadReply(posts[1]) <=> Truthy(thread_ts)
                /\ IsThreadReply(posts[1]) => posts[1].kwargs.thread_ts = thread_ts

C30_Witness ==
    /\ Posted
    /\ dry_run
    /\ posts = <<>>
    /\ processed # Nothing
    /\ Truthy(thread_ts)

====
